---- MODULE Spec2Model ----
\* ec2-macos-utils: the grow command (internal/cmd), the growth orchestrator
\* (internal/diskutil.GrowContainer), the dry-run decorator and the disk types
\* they consume, as a state machine whose steps are the facade calls.
EXTENDS Integers, Sequences, FiniteSets, TLC

\* ---------------------------------------------------------------------------
\* Bounds of the model
\* ---------------------------------------------------------------------------
\* most physical stores a DiskInfo carries
MaxStores == 2
\* most partitions a DiskPart carries
MaxParts == 2
\* most DiskPart records a SystemPartitions snapshot carries
MaxDisks == 2
\* most calls a direct caller makes on the facade
MaxCalls == 3

\* lines in the output of dscacheutil
MaxLines == 2

\* ---------------------------------------------------------------------------
\* Strings. Identifiers that the code scans (regexp, EqualFold, TrimSpace) are
\* sequences of one-character strings; strings the code only compares for
\* equality stay TLA+ strings.
\* ---------------------------------------------------------------------------
EmptyStr == << >>

disk0 == <<"d", "i", "s", "k", "0">>
disk1 == <<"d", "i", "s", "k", "1">>
DISK0 == <<"D", "I", "S", "K", "0">>
disk0s2 == <<"d", "i", "s", "k", "0", "s", "2">>
xdisk0 == <<"x", "d", "i", "s", "k", "0", "s", "2">>
vol == <<"v", "o", "l">>
devDisk1 == <<"/", "d", "e", "v", "/", "d", "i", "s", "k", "1">>
rootStr == <<"r", "o", "o", "t">>
RootStr == <<"R", "o", "o", "T">>
slash == <<"/">>
blank == <<" ", " ">>
diskNoNum == <<"d", "i", "s", "k">>
disk9 == <<"d", "i", "s", "k", "9">>

Digits == {"0", "1", "2", "3", "4", "5", "6", "7", "8", "9"}
UpperCase == <<"A", "B", "C", "D", "E", "F", "G", "H", "I", "J", "K", "L", "M",
               "N", "O", "P", "Q", "R", "S", "T", "U", "V", "W", "X", "Y", "Z">>
LowerCase == <<"a", "b", "c", "d", "e", "f", "g", "h", "i", "j", "k", "l", "m",
               "n", "o", "p", "q", "r", "s", "t", "u", "v", "w", "x", "y", "z">>

\* simple case folding of one ASCII character
Fold(c) ==
    IF \E i \in 1..26 : UpperCase[i] = c
    THEN LowerCase[CHOOSE i \in 1..26 : UpperCase[i] = c]
    ELSE c

\* strings.EqualFold
EqualFold(s, t) ==
    /\ Len(s) = Len(t)
    /\ \A i \in 1..Len(s) : Fold(s[i]) = Fold(t[i])

\* strings.TrimSpace(s) == ""
IsBlank(s) == \A i \in 1..Len(s) : s[i] \in {" ", "\t", "\n"}

\* does "disk[0-9]+" match at position i of s
DiskIDMatchAt(s, i) ==
    /\ i + 4 <= Len(s)
    /\ SubSeq(s, i, i + 3) = diskNoNum
    /\ s[i + 4] \in Digits

\* end of the greedy digit run that starts at position j of s
RECURSIVE DigitRunEnd(_, _)
DigitRunEnd(s, j) ==
    IF j < Len(s) /\ s[j + 1] \in Digits THEN DigitRunEnd(s, j + 1) ELSE j

\* regexp.MustCompile("disk[0-9]+").FindString(s): leftmost match, longest
\* digit run, "" when nothing matches
DiskIDFindString(s) ==
    IF \E i \in 1..Len(s) : DiskIDMatchAt(s, i)
    THEN LET i == CHOOSE k \in 1..Len(s) :
                     /\ DiskIDMatchAt(s, k)
                     /\ \A m \in 1..(k - 1) : ~DiskIDMatchAt(s, m)
         IN SubSeq(s, i, DigitRunEnd(s, i + 4))
    ELSE EmptyStr

\* ---------------------------------------------------------------------------
\* uint64 arithmetic, exact: a value is four 16-bit limbs, least significant
\* first, so that sums and differences wrap modulo 2^64 as in Go.
\* ---------------------------------------------------------------------------
Limb == 2 ^ 16

\* a natural below 2^31 as a uint64
ToU64(n) == <<n % Limb, (n \div Limb) % Limb, 0, 0>>

U64Zero == ToU64(0)

RECURSIVE U64AddFrom(_, _, _, _)
U64AddFrom(a, b, i, carry) ==
    IF i > 4 THEN << >>
    ELSE LET t == a[i] + b[i] + carry
         IN <<t % Limb>> \o U64AddFrom(a, b, i + 1, t \div Limb)

\* a + b modulo 2^64
U64Add(a, b) == U64AddFrom(a, b, 1, 0)

RECURSIVE U64SubFrom(_, _, _, _)
U64SubFrom(a, b, i, borrow) ==
    IF i > 4 THEN << >>
    ELSE LET t == a[i] - b[i] - borrow
         IN <<(t + Limb) % Limb>> \o U64SubFrom(a, b, i + 1, IF t < 0 THEN 1 ELSE 0)

\* a - b modulo 2^64
U64Sub(a, b) == U64SubFrom(a, b, 1, 0)

\* a < b on uint64
U64Less(a, b) ==
    \E i \in 1..4 :
        /\ a[i] < b[i]
        /\ \A j \in (i + 1)..4 : a[j] = b[j]

\* ---------------------------------------------------------------------------
\* Go values. A pointer is << >> (nil) or <<v>>; a slice is << >> (nil) or
\* <<items>> with items a sequence. An error is its chain of wrapped layers,
\* outermost first; the nil error is the empty chain.
\* ---------------------------------------------------------------------------
NilPtr == << >>
Ptr(v) == <<v>>
Deref(p) == p[1]

NilSlice == << >>
Slice(items) == <<items>>
SliceLen(sl) == IF sl = NilSlice THEN 0 ELSE Len(sl[1])
SliceAt(sl, i) == sl[1][i]

NoErr == << >>
ErrorLayer(kind, msg, bytes) == [kind |-> kind, msg |-> msg, bytes |-> bytes]
\* errors.New / fmt.Errorf without %w
ErrorsNew(msg) == <<ErrorLayer("errorString", msg, U64Zero)>>
\* fmt.Errorf("msg: %w", e)
Wrap(msg, e) == <<ErrorLayer("wrapError", msg, U64Zero)>> \o e
\* errors.Is(e, target) for a sentinel target
ErrorsIs(e, target) == \E i \in 1..Len(e) : e[i] = target[1]

ErrReadOnly == <<ErrorLayer("ErrReadOnly", "read-only mode", U64Zero)>>
FreeSpaceError(freeSpaceBytes) == <<ErrorLayer("FreeSpaceError", "bytes available", freeSpaceBytes)>>
\* errors.As(e, &FreeSpaceError{})
ErrorsAsFreeSpaceError(e) == \E i \in 1..Len(e) : e[i].kind = "FreeSpaceError"

minimumGrowFreeSpace == 1000000

\* ---------------------------------------------------------------------------
\* types.DiskInfo, types.SystemPartitions (the fields the code reads)
\* ---------------------------------------------------------------------------
ZeroContainerInfo == [FilesystemType |-> "", APFSContainerSize |-> 0]

DiskInfo(ci, ref, stores, dev, parent, vop) ==
    [ContainerInfo |-> ci, APFSContainerReference |-> ref, APFSPhysicalStores |-> stores,
     DeviceIdentifier |-> dev, ParentWholeDisk |-> parent, VirtualOrPhysical |-> vop]

ZeroDiskInfo == DiskInfo(ZeroContainerInfo, EmptyStr, NilSlice, EmptyStr, EmptyStr, "")

APFSPhysicalStore(id) == [DeviceIdentifier |-> id]

DiskPart(id, size, parts) == [DeviceIdentifier |-> id, Size |-> size, Partitions |-> parts]

Partition(size) == [Size |-> size]

SystemPartitions(allDisks, dps) == [AllDisks |-> allDisks, AllDisksAndPartitions |-> dps]

\* DiskInfo.IsPhysical
IsPhysical(d) == d.VirtualOrPhysical = "Physical"

\* variant: the first physical store taken, however many there are
ParentDeviceID_FirstStore(d) ==
    IF SliceLen(d.APFSPhysicalStores) = 0
    THEN [id |-> EmptyStr, err |-> ErrorsNew("no physical stores found in disk")]
    ELSE LET found == DiskIDFindString(SliceAt(d.APFSPhysicalStores, 1).DeviceIdentifier)
         IN IF found = EmptyStr
            THEN [id |-> EmptyStr, err |-> ErrorsNew("physical store does not contain the expected expression")]
            ELSE [id |-> found, err |-> NoErr]

\* variant: the store's identifier returned whole, partition suffix included
ParentDeviceID_WholeId(d) ==
    IF d.APFSPhysicalStores = NilSlice
    THEN [id |-> EmptyStr, err |-> ErrorsNew("no physical stores found in disk")]
    ELSE IF SliceLen(d.APFSPhysicalStores) # 1
    THEN [id |-> EmptyStr, err |-> ErrorsNew("expected 1 physical store")]
    ELSE LET id == SliceAt(d.APFSPhysicalStores, 1).DeviceIdentifier
         IN IF DiskIDFindString(id) = EmptyStr
            THEN [id |-> EmptyStr, err |-> ErrorsNew("physical store does not contain the expected expression")]
            ELSE [id |-> id, err |-> NoErr]

\* DiskInfo.ParentDeviceID: [id, err]
ParentDeviceID(d) ==
    IF d.APFSPhysicalStores = NilSlice
    THEN [id |-> EmptyStr, err |-> ErrorsNew("no physical stores found in disk")]
    ELSE IF SliceLen(d.APFSPhysicalStores) # 1
    THEN [id |-> EmptyStr, err |-> ErrorsNew("expected 1 physical store")]
    ELSE LET id == DiskIDFindString(SliceAt(d.APFSPhysicalStores, 1).DeviceIdentifier)
         IN IF id = EmptyStr
            THEN [id |-> EmptyStr, err |-> ErrorsNew("physical store does not contain the expected expression")]
            ELSE [id |-> id, err |-> NoErr]

\* variant: only the last partition counted as allocated
Allocated_LastOnly(parts, n) ==
    IF n = 0 THEN U64Zero ELSE ToU64(parts[n].Size)

\* the uint64 sum of the sizes of a partition list, as the loop accumulates it
RECURSIVE Allocated(_, _)
Allocated(parts, n) ==
    IF n = 0 THEN U64Zero ELSE U64Add(Allocated(parts, n - 1), ToU64(parts[n].Size))

\* variant: the last matching DiskPart taken
AvailableDiskSpace_LastMatch(p, id) ==
    LET dps == p.AllDisksAndPartitions
        hits == {i \in 1..Len(dps) : EqualFold(dps[i].DeviceIdentifier, id)}
    IN IF hits = {}
       THEN [size |-> U64Zero, err |-> ErrorsNew("no partition information found for ID")]
       ELSE LET target == dps[CHOOSE i \in hits : \A j \in hits : i >= j]
            IN [size |-> U64Sub(ToU64(target.Size), Allocated(target.Partitions, Len(target.Partitions))),
                err |-> NoErr]

\* variant: no free space where the partitions exceed the disk
AvailableDiskSpace_Saturating(p, id) ==
    LET dps == p.AllDisksAndPartitions
        hits == {i \in 1..Len(dps) : EqualFold(dps[i].DeviceIdentifier, id)}
    IN IF hits = {}
       THEN [size |-> U64Zero, err |-> ErrorsNew("no partition information found for ID")]
       ELSE LET target == dps[CHOOSE i \in hits : \A j \in hits : i <= j]
                allocated == Allocated(target.Partitions, Len(target.Partitions))
            IN [size |-> IF U64Less(ToU64(target.Size), allocated) THEN U64Zero
                         ELSE U64Sub(ToU64(target.Size), allocated),
                err |-> NoErr]

\* the target of AvailableDiskSpace: a pointer to the first DiskPart whose
\* identifier is id in any letter case, nil if there is none
FindDiskPart(p, id) ==
    LET dps == p.AllDisksAndPartitions
        hits == {i \in 1..Len(dps) : EqualFold(dps[i].DeviceIdentifier, id)}
    IN IF hits = {} THEN NilPtr ELSE Ptr(dps[CHOOSE i \in hits : \A j \in hits : i <= j])

\* SystemPartitions.AvailableDiskSpace: [size, err]
AvailableDiskSpace(p, id) ==
    LET dps == p.AllDisksAndPartitions
        hits == {i \in 1..Len(dps) : EqualFold(dps[i].DeviceIdentifier, id)}
    IN IF hits = {}
       THEN [size |-> U64Zero, err |-> ErrorsNew("no partition information found for ID")]
       ELSE LET target == dps[CHOOSE i \in hits : \A j \in hits : i <= j]
            IN [size |-> U64Sub(ToU64(target.Size), Allocated(target.Partitions, Len(target.Partitions))),
                err |-> NoErr]

\* variant: a container reference accepted without physical stores
canAPFSResize_RefOnly(disk) ==
    IF disk = NilPtr
    THEN ErrorsNew("no disk information")
    ELSE IF \/ Deref(disk).ContainerInfo.FilesystemType = "apfs"
            \/ Deref(disk).APFSContainerReference # EmptyStr
    THEN NoErr
    ELSE ErrorsNew("disk is not apfs")

\* variant: any non-empty ContainerInfo accepted, whatever its filesystem type
canAPFSResize_AnyContainerInfo(disk) ==
    IF disk = NilPtr
    THEN ErrorsNew("no disk information")
    ELSE IF Deref(disk).ContainerInfo # ZeroContainerInfo
    THEN NoErr
    ELSE IF /\ Deref(disk).APFSContainerReference # EmptyStr
            /\ SliceLen(Deref(disk).APFSPhysicalStores) > 0
    THEN NoErr
    ELSE ErrorsNew("disk is not apfs")

\* canAPFSResize: the error it returns (NoErr when the disk can be resized)
canAPFSResize(disk) ==
    IF disk = NilPtr
    THEN ErrorsNew("no disk information")
    ELSE IF /\ Deref(disk).ContainerInfo # ZeroContainerInfo
            /\ Deref(disk).ContainerInfo.FilesystemType = "apfs"
    THEN NoErr
    ELSE IF /\ Deref(disk).APFSContainerReference # EmptyStr
            /\ SliceLen(Deref(disk).APFSPhysicalStores) > 0
    THEN NoErr
    ELSE ErrorsNew("disk is not apfs")

\* ---------------------------------------------------------------------------
\* The sets the inputs and the tool's answers are drawn from
\* ---------------------------------------------------------------------------
ok == <<"o", "k">>
sizeMax == <<"0">>

FilesystemTypes == {"", "apfs", "hfs"}
ContainerInfos == [FilesystemType : FilesystemTypes, APFSContainerSize : {0, 1}]
StoreIds == {disk0s2, vol}
StoreSeqs == UNION {[1..n -> {APFSPhysicalStore(i) : i \in StoreIds}] : n \in 0..MaxStores}
StoreSlices == {NilSlice} \cup {Slice(st) : st \in StoreSeqs}

\* the records a caller may hand to GrowContainer
DiskInfos ==
    {DiskInfo(ci, ref, st, disk1, disk1, vop) :
        ci \in ContainerInfos, ref \in {EmptyStr, disk1}, st \in StoreSlices,
        vop \in {"Physical", "Virtual"}}
    \cup {ZeroDiskInfo}

\* the records the tool's info verb answers with: APFS disks with every shape
\* of physical-store list, and the zero record an empty output decodes to
InfoDisks ==
    {DiskInfo([FilesystemType |-> "apfs", APFSContainerSize |-> 0], EmptyStr, st,
              disk0, disk1, vop) :
        st \in StoreSlices, vop \in {"Physical", "Virtual"}}
    \cup {ZeroDiskInfo}

DiskSizes == {1000000}
PartSizes == {1, 1000000}
PartSeqs == UNION {[1..n -> {Partition(sz) : sz \in PartSizes}] : n \in 0..MaxParts}

\* the DiskPart records of a snapshot: every shape of disk0, one record whose
\* identifier differs from disk0 in letter case only, and one other disk
DiskPartSet ==
    {DiskPart(disk0, sz, ps) : sz \in DiskSizes, ps \in PartSeqs}
    \cup {DiskPart(DISK0, 3000000, <<Partition(500000), Partition(500000)>>), DiskPart(disk1, 1000000, <<Partition(500000)>>)}

DiskPartSeqs ==
    {dps \in UNION {[1..n -> DiskPartSet] : n \in 0..MaxDisks} :
        \A i, j \in 1..Len(dps) :
            dps[i].DeviceIdentifier = dps[j].DeviceIdentifier => i = j}

\* the identifiers of a snapshot's records, in order
RECURSIVE DeviceIdentifiers(_, _)
DeviceIdentifiers(dps, n) ==
    IF n = 0 THEN << >> ELSE Append(DeviceIdentifiers(dps, n - 1), dps[n].DeviceIdentifier)

\* what the wrapped implementation can return: [val, err]
Result(val, err) == [val |-> val, err |-> err]
NoResult == Result(EmptyStr, NoErr)
ToolErr == ErrorsNew("diskutil: exit status 1")

InfoResults ==
    {Result(NilPtr, ToolErr)} \cup {Result(Ptr(d), NoErr) : d \in InfoDisks}
ListResults ==
    {Result(NilPtr, ToolErr)}
    \cup {Result(Ptr(SystemPartitions(DeviceIdentifiers(dps, Len(dps)), dps)), NoErr) :
            dps \in DiskPartSeqs}
\* what the list verb answers getTargetDiskInfo with: validateDeviceID reads
\* AllDisks only, so one snapshot stands for all with the same identifiers
TargetListResults ==
    {r \in ListResults :
        r.err = NoErr =>
            \A i \in 1..Len(Deref(r.val).AllDisksAndPartitions) :
                LET dp == Deref(r.val).AllDisksAndPartitions[i]
                IN \/ dp = DiskPart(disk0, 1000000, << >>)
                   \/ dp.DeviceIdentifier # disk0}
RepairResults == {Result(ok, NoErr), Result(EmptyStr, ToolErr)}
ResizeResults == {Result(ok, NoErr), Result(EmptyStr, ToolErr)}

\* the --id values the command is run with
Targets == {rootStr, RootStr, disk1, devDisk1, disk9, EmptyStr, blank, vol}

\* a disk whose partitions occupy its whole size
RECURSIVE TotalSize(_)
TotalSize(ps) == IF ps = << >> THEN 0 ELSE ps[1].Size + TotalSize(Tail(ps))
FilledDisk(dev, ps) == DiskPart(dev, TotalSize(ps), ps)

\* what the list verb answers once the container on disk parent has been
\* grown to its maximum: the parent's partitions occupy its whole size
ListAfterResize(parent) ==
    {Result(NilPtr, ToolErr)}
    \cup {Result(Ptr(SystemPartitions(DeviceIdentifiers(dps, Len(dps)), dps)), NoErr) :
            dps \in UNION {{<<FilledDisk(parent, ps)>>,
                            <<DiskPart(disk1, 1000000, <<Partition(500000)>>),
                              FilledDisk(parent, ps)>>} :
                           ps \in PartSeqs \ {<< >>}}}

\* a context: cmd.Context() has no deadline and no error
Context(hasDeadline, err, after) == [hasDeadline |-> hasDeadline, err |-> err, after |-> after]
Background == Context(FALSE, "", 0)

\* what a command started under the context answers with once the deadline
\* has elapsed: exec.CommandContext kills it, or does not start it
Killed == ErrorsNew("signal: killed")
Answers(c, results) == IF c.err = "DeadlineExceeded" THEN {Result(<< >>, Killed)} ELSE results

\* a direct call of function fn with arguments args that returned out
DirectCall(fn, args, out) == [fn |-> fn, args |-> args, out |-> out]
NoCall == DirectCall("", << >>, << >>)

\* ---------------------------------------------------------------------------
\* State
\* ---------------------------------------------------------------------------
VARIABLES
    entry,      \* the function under execution: "GrowContainer", "run",
                \* "client" for a caller that uses the facade directly, or
                \* "caller" for one that calls the functions below directly
    direct,     \* the latest direct call of a function: [fn, args, out]
    validated,  \* <<the AllDisks that run's first getTargetDiskInfo gave to
                \* validateDeviceID>>; << >> before that, and once its Info
                \* is called
    dryrun,     \* growContainer.dryrun: the facade is Dryrun(impl)
    id,         \* growContainer.id
    pc,         \* the next facade call of the running function
    container,  \* GrowContainer's container (run's di)
    phy,        \* GrowContainer's phy
    totalFree,  \* << >> until getDiskFreeSpace returns, then <<[size, err]>>:
                \* GrowContainer's totalFree and err of line 54
    growPartitions, \* << >> until the List of getDiskFreeSpace returns its
                \* partitions, then <<the DeviceIdentifiers of their DiskParts>>
    growTarget, \* << >> until that List returns the DiskPart of the parent disk,
                \* then <<the DiskPart AvailableDiskSpace takes as its target>>
    calls,      \* the calls made on the facade u, in order, each with the
                \* function that made it and the error it returned
    implCalls,  \* the calls that reached the wrapped implementation, in order
    ret,        \* what the facade returned to a direct caller's latest call
    implRet,    \* what the wrapped implementation returned in that call
    growRet,    \* << >> until GrowContainer returns, then <<its error>>
    runRet,     \* << >> until run returns, then <<its error>>
    timeout,    \* growContainer.timeout, in seconds
    ctx,        \* the context the facade calls run under: whether it has a
                \* deadline, its Err(), and how many facade calls had
                \* returned when the deadline elapsed
    cmdRet,     \* << >> until the grow command returns, then <<its error>>
    euid        \* os.Geteuid() of the process

vars == <<entry, direct, validated, dryrun, id, pc, container, phy, totalFree, growPartitions, growTarget, calls, implCalls,
          ret, implRet, growRet, runRet, timeout, ctx, cmdRet, euid>>

\* the state of the grow command around run
cmdVars == <<timeout, ctx, cmdRet, euid>>

\* ---------------------------------------------------------------------------
\* The facade: the wrapped implementation, and readonlyWrapper around it.
\* Each operation yields what the caller gets back (ret), the calls it passes
\* on to the wrapped implementation (fwd) and that implementation's answer.
\* ---------------------------------------------------------------------------
Call(op, a, size) == [op |-> op, id |-> a, size |-> size]

Forward(call, implResp) == [ret |-> implResp, fwd |-> <<call>>, impl |-> implResp]
Skip(msg) == [ret |-> Result(EmptyStr, Wrap(msg, ErrReadOnly)), fwd |-> << >>, impl |-> NoResult]

readonlyWrapper_ResizeContainer(a, size, implResp) == Skip("skip resize container")
readonlyWrapper_Info(a, implResp) == Forward(Call("Info", a, EmptyStr), implResp)
readonlyWrapper_List(implResp) == Forward(Call("List", EmptyStr, EmptyStr), implResp)
\* variant: RepairDisk passed on to the wrapped implementation
readonlyWrapper_RepairDisk_Forward(a, implResp) ==
    Forward(Call("RepairDisk", a, EmptyStr), implResp)
readonlyWrapper_RepairDisk(a, implResp) == Skip("skip repair disk")

\* u.Info, u.List, u.RepairDisk, u.ResizeContainer for the facade in use
u_Info(a, implResp) ==
    IF dryrun THEN readonlyWrapper_Info(a, implResp)
    ELSE Forward(Call("Info", a, EmptyStr), implResp)
u_List(implResp) ==
    IF dryrun THEN readonlyWrapper_List(implResp)
    ELSE Forward(Call("List", EmptyStr, EmptyStr), implResp)
u_RepairDisk(a, implResp) ==
    IF dryrun THEN readonlyWrapper_RepairDisk(a, implResp)
    ELSE Forward(Call("RepairDisk", a, EmptyStr), implResp)
u_ResizeContainer(a, size, implResp) ==
    IF dryrun THEN readonlyWrapper_ResizeContainer(a, size, implResp)
    ELSE Forward(Call("ResizeContainer", a, size), implResp)

\* the entry of the call log for a call made by function by
Logged(by, call, out) ==
    [op |-> call.op, id |-> call.id, size |-> call.size, by |-> by, err |-> out.ret.err]

\* the bookkeeping of one facade call made by run or GrowContainer, which
\* consume what it returns within the step
Invoke(by, call, out) ==
    /\ calls' = Append(calls, Logged(by, call, out))
    /\ implCalls' = implCalls \o out.fwd
    /\ UNCHANGED <<ret, implRet>>

\* ---------------------------------------------------------------------------
\* internal/diskutil: GrowContainer
\* ---------------------------------------------------------------------------
\* variant: every error of RepairDisk dropped
RepairDiskErr_Swallow(err) == NoErr

\* variant: the read-only error returned like any other
RepairDiskErr_ReadOnlyFatal(err) == err

\* repairParentDisk's treatment of RepairDisk's error: the read-only error is
\* logged and dropped, any other error is returned
RepairDiskErr(err) == IF ErrorsIs(err, ErrReadOnly) THEN NoErr ELSE err

\* variant: every error of ResizeContainer returned
ResizeContainerErr_Propagate(err) == err

\* GrowContainer's treatment of ResizeContainer's error
ResizeContainerErr(err) == IF ErrorsIs(err, ErrReadOnly) THEN NoErr ELSE err

\* p.AllDisksAndPartitions read through a nil p: the goroutine panics, and
\* nothing is returned
NilDereference ==
    [size |-> U64Zero, err |-> NoErr, panic |-> "invalid memory address or nil pointer dereference"]

\* variant: a nil record from List turned into an error
getDiskFreeSpace_NilChecked(listRet, disk) ==
    IF listRet.err # NoErr
    THEN [size |-> U64Zero, err |-> listRet.err]
    ELSE IF listRet.val = NilPtr
    THEN [size |-> U64Zero, err |-> ErrorsNew("no partition information")]
    ELSE LET parent == ParentDeviceID(disk)
         IN IF parent.err # NoErr
            THEN [size |-> U64Zero, err |-> parent.err]
            ELSE AvailableDiskSpace(Deref(listRet.val), parent.id)

\* variant: a failed lookup read as no free space
getDiskFreeSpace_ZeroOnMiss(listRet, disk) ==
    IF listRet.err # NoErr
    THEN [size |-> U64Zero, err |-> listRet.err]
    ELSE LET parent == ParentDeviceID(disk)
         IN IF parent.err # NoErr
            THEN [size |-> U64Zero, err |-> parent.err]
            ELSE [size |-> AvailableDiskSpace(Deref(listRet.val), parent.id).size,
                  err |-> NoErr]

\* variant: the free space of the disk itself, not of its parent
getDiskFreeSpace_OwnID(listRet, disk) ==
    IF listRet.err # NoErr
    THEN [size |-> U64Zero, err |-> listRet.err]
    ELSE LET parent == ParentDeviceID(disk)
         IN IF parent.err # NoErr
            THEN [size |-> U64Zero, err |-> parent.err]
            ELSE AvailableDiskSpace(Deref(listRet.val), disk.DeviceIdentifier)

\* getDiskFreeSpace, given what util.List returned: [size, err]
getDiskFreeSpace(listRet, disk) ==
    IF listRet.err # NoErr
    THEN [size |-> U64Zero, err |-> listRet.err]
    ELSE LET parent == ParentDeviceID(disk)
         IN IF parent.err # NoErr
            THEN [size |-> U64Zero, err |-> parent.err]
            ELSE IF listRet.val = NilPtr
            THEN NilDereference
            ELSE AvailableDiskSpace(Deref(listRet.val), parent.id)

\* variant: the gate as totalFree <= minimumGrowFreeSpace
BelowMinimum_AtMost(free) ==
    U64Less(free, ToU64(minimumGrowFreeSpace)) \/ free = ToU64(minimumGrowFreeSpace)

\* the free-space gate: totalFree < minimumGrowFreeSpace
BelowMinimum(free) == U64Less(free, ToU64(minimumGrowFreeSpace))

\* variant: the parent fetched for a physical disk instead of a virtual one
FirstStep_Inverted(disk) == IF IsPhysical(disk) THEN "grow_info" ELSE "grow_repair"

\* the first facade step of GrowContainer: phy.IsPhysical() decides whether
\* the parent is fetched
FirstStep(disk) == IF ~IsPhysical(disk) THEN "grow_info" ELSE "grow_repair"

\* variant: the free-space gate ahead of the repair
StepAfter_GateFirst(step) ==
    CASE step = "grow_info" -> "grow_list"
      [] step = "grow_list" -> "grow_repair"
      [] step = "grow_repair" -> "grow_resize"

\* the order of GrowContainer's statements: the step that follows a step
StepAfter(step) ==
    CASE step = "grow_info" -> "grow_repair"
      [] step = "grow_repair" -> "grow_list"
      [] step = "grow_list" -> "grow_resize"

\* variant: every error of GrowContainer returned by run
RunAfterGrow_AllFatal(err) == IF err # NoErr THEN Ptr(err) ELSE NilPtr

\* run's treatment of GrowContainer's error: the error run returns at once, or
\* << >> when run goes on to refresh the disk information
RunAfterGrow(err) ==
    IF err # NoErr
    THEN IF ErrorsAsFreeSpaceError(err) THEN Ptr(NoErr) ELSE Ptr(err)
    ELSE NilPtr

\* GrowContainer returns err to its caller
GrowReturned(err) ==
    /\ growRet' = Ptr(err)
    /\ IF entry = "run"
       THEN /\ runRet' = RunAfterGrow(err)
            /\ pc' = IF RunAfterGrow(err) = NilPtr THEN "refresh" ELSE "done"
       ELSE /\ runRet' = runRet
            /\ pc' = "done"

\* the running function goes on to its next facade call
Continue(next) ==
    /\ pc' = next
    /\ UNCHANGED <<growRet, runRet>>

\* lines 20-35: the nil check, the eligibility check, the choice of phy
GrowStart ==
    /\ pc = "GrowContainer"
    /\ IF container = NilPtr
       THEN GrowReturned(ErrorsNew("unable to resize nil container")) /\ phy' = phy
       ELSE IF canAPFSResize(container) # NoErr
       THEN GrowReturned(Wrap("unable to resize container", canAPFSResize(container)))
            /\ phy' = phy
       ELSE /\ phy' = container
            /\ Continue(FirstStep(Deref(container)))
    /\ UNCHANGED <<cmdVars, entry, direct, validated, dryrun, id, container, totalFree, growPartitions, growTarget, calls, implCalls, ret, implRet>>

\* lines 36-42: u.Info(ctx, phy.ParentWholeDisk)
GrowInfo ==
    /\ pc = "grow_info"
    /\ \E implResp \in Answers(ctx, InfoResults) :
        LET a == Deref(phy).ParentWholeDisk
            out == u_Info(a, implResp)
        IN /\ Invoke("GrowContainer", Call("Info", a, EmptyStr), out)
           /\ IF out.ret.err # NoErr
              THEN GrowReturned(Wrap("unable to determine physical disk", out.ret.err))
                   /\ phy' = phy
              ELSE phy' = out.ret.val /\ Continue(StepAfter("grow_info"))
    /\ UNCHANGED <<cmdVars, entry, direct, validated, dryrun, id, container, totalFree, growPartitions, growTarget>>

\* lines 44-50 and repairParentDisk
GrowRepair ==
    /\ pc = "grow_repair"
    /\ LET parent == ParentDeviceID(Deref(phy))
       IN IF parent.err # NoErr
          THEN /\ GrowReturned(Wrap("cannot update free space on disk", parent.err))
               /\ UNCHANGED <<calls, implCalls, ret, implRet>>
          ELSE \E implResp \in Answers(ctx, RepairResults) :
                LET out == u_RepairDisk(parent.id, implResp)
                    err == RepairDiskErr(out.ret.err)
                IN /\ Invoke("GrowContainer", Call("RepairDisk", parent.id, EmptyStr), out)
                   /\ IF err # NoErr
                      THEN GrowReturned(Wrap("cannot update free space on disk", err))
                      ELSE Continue(StepAfter("grow_repair"))
    /\ UNCHANGED <<cmdVars, entry, direct, validated, dryrun, id, container, phy, totalFree, growPartitions, growTarget>>

\* lines 52-65: getDiskFreeSpace and the free-space gate
GrowList ==
    /\ pc = "grow_list"
    /\ \E implResp \in Answers(ctx, IF entry = "again"
                                    THEN ListAfterResize(ParentDeviceID(Deref(phy)).id)
                                    ELSE ListResults) :
        LET out == u_List(implResp)
            free == getDiskFreeSpace(out.ret, Deref(phy))
        IN /\ Invoke("GrowContainer", Call("List", EmptyStr, EmptyStr), out)
           /\ totalFree' = Ptr(free)
           /\ growPartitions' =
                 IF out.ret.err # NoErr
                 THEN NilPtr
                 ELSE LET dps == Deref(out.ret.val).AllDisksAndPartitions
                      IN Ptr(DeviceIdentifiers(dps, Len(dps)))
           /\ growTarget' =
                 IF \/ out.ret.err # NoErr
                    \/ out.ret.val = NilPtr
                    \/ ParentDeviceID(Deref(phy)).err # NoErr
                 THEN NilPtr
                 ELSE FindDiskPart(Deref(out.ret.val), ParentDeviceID(Deref(phy)).id)
           /\ IF free.err # NoErr
              THEN GrowReturned(Wrap("cannot determine available space on disk", free.err))
              ELSE IF BelowMinimum(free.size)
              THEN GrowReturned(Wrap("not enough space to resize container",
                                     FreeSpaceError(free.size)))
              ELSE Continue(StepAfter("grow_list"))
    /\ UNCHANGED <<cmdVars, entry, direct, validated, dryrun, id, container, phy>>

\* variant: the container's own identifier resized
ResizeTarget_Container(c, p) == Deref(c).DeviceIdentifier

\* the device GrowContainer resizes: phy.DeviceIdentifier
ResizeTarget(c, p) == Deref(p).DeviceIdentifier

\* lines 67-79: u.ResizeContainer(ctx, phy.DeviceIdentifier, "0")
GrowResize ==
    /\ pc = "grow_resize"
    /\ \E implResp \in Answers(ctx, ResizeResults) :
        LET a == ResizeTarget(container, phy)
            out == u_ResizeContainer(a, sizeMax, implResp)
        IN /\ Invoke("GrowContainer", Call("ResizeContainer", a, sizeMax), out)
           /\ GrowReturned(ResizeContainerErr(out.ret.err))
    /\ UNCHANGED <<cmdVars, entry, direct, validated, dryrun, id, container, phy, totalFree, growPartitions, growTarget>>

\* ---------------------------------------------------------------------------
\* internal/cmd: run, getTargetDiskInfo, validateDeviceID
\* ---------------------------------------------------------------------------
\* identifier.ParseDiskID
ParseDiskID(s) == IF IsBlank(s) THEN EmptyStr ELSE DiskIDFindString(s)

\* variant: every target taken as valid
validateDeviceID_Accept(a, partitions) == NoErr

\* validateDeviceID: the error it returns
validateDeviceID(a, partitions) ==
    IF IsBlank(a)
    THEN ErrorsNew("empty device id")
    ELSE IF ParseDiskID(a) = EmptyStr
    THEN ErrorsNew("id does not match the expected device identifier format")
    ELSE IF \E i \in 1..Len(partitions.AllDisks) :
                EqualFold(partitions.AllDisks[i], ParseDiskID(a))
    THEN NoErr
    ELSE ErrorsNew("invalid device identifier")

\* the target of run's two getTargetDiskInfo calls: args.id, then
\* di.ParentWholeDisk
TargetOf(stage) == IF stage = "run" THEN id ELSE Deref(container).ParentWholeDisk

\* variant: "root" recognised in lower case only
IsRootTarget_CaseSensitive(target) == target = rootStr

\* getTargetDiskInfo's test of the target: strings.EqualFold("root", target)
IsRootTarget(target) == EqualFold(rootStr, target)

\* variant: the error of the refresh logged and dropped
RunAfterRefresh_Logged(err) == NoErr

\* lines 112-122 of run: what run returns once the refresh returned err
RunAfterRefresh(err) == err

\* getTargetDiskInfo returns r = [val, err] to run
TargetReturned(stage, r) ==
    /\ growRet' = growRet
    /\ IF stage = "run"
       THEN /\ container' = r.val
            /\ IF r.err # NoErr
               THEN runRet' = Ptr(Wrap("cannot grow container", r.err)) /\ pc' = "done"
               ELSE runRet' = runRet /\ pc' = "GrowContainer"
       ELSE /\ container' = container
            /\ runRet' = Ptr(RunAfterRefresh(r.err))
            /\ pc' = "done"

\* getTargetDiskInfo, target "root": du.Info(ctx, "/")
GetTargetDiskInfoRoot(stage) ==
    /\ pc = stage
    /\ IsRootTarget(TargetOf(stage))
    /\ \E implResp \in Answers(ctx, InfoResults) :
        LET out == u_Info(slash, implResp)
        IN /\ Invoke(stage, Call("Info", slash, EmptyStr), out)
           /\ TargetReturned(stage, out.ret)
    /\ UNCHANGED <<cmdVars, entry, direct, validated, dryrun, id, phy, totalFree, growPartitions, growTarget>>

\* getTargetDiskInfo, any other target: du.List(ctx, nil) and validateDeviceID
GetTargetDiskInfoList(stage) ==
    /\ pc = stage
    /\ ~IsRootTarget(TargetOf(stage))
    /\ \E implResp \in Answers(ctx, TargetListResults) :
        LET out == u_List(implResp)
        IN /\ Invoke(stage, Call("List", EmptyStr, EmptyStr), out)
           /\ validated' = IF stage = "run" /\ out.ret.err = NoErr
                           THEN Ptr(Deref(out.ret.val).AllDisks)
                           ELSE validated
           /\ IF out.ret.err # NoErr
              THEN TargetReturned(stage, Result(NilPtr, Wrap("cannot list partitions", out.ret.err)))
              ELSE IF validateDeviceID(TargetOf(stage), Deref(out.ret.val)) # NoErr
              THEN TargetReturned(stage,
                       Result(NilPtr, Wrap("invalid target",
                                           validateDeviceID(TargetOf(stage), Deref(out.ret.val)))))
              ELSE /\ pc' = IF stage = "run" THEN "run_info" ELSE "refresh_info"
                   /\ UNCHANGED <<container, growRet, runRet>>
    /\ UNCHANGED <<cmdVars, entry, direct, dryrun, id, phy, totalFree, growPartitions, growTarget>>

\* getTargetDiskInfo, after the validation: du.Info(ctx, target)
GetTargetDiskInfoInfo(stage) ==
    /\ pc = IF stage = "run" THEN "run_info" ELSE "refresh_info"
    /\ \E implResp \in Answers(ctx, InfoResults) :
        LET out == u_Info(TargetOf(stage), implResp)
        IN /\ Invoke(stage, Call("Info", TargetOf(stage), EmptyStr), out)
           /\ TargetReturned(stage, out.ret)
    /\ validated' = NilPtr
    /\ UNCHANGED <<cmdVars, entry, direct, dryrun, id, phy, totalFree, growPartitions, growTarget>>

\* ---------------------------------------------------------------------------
\* Specification: one invocation of GrowContainer, or of the grow command's run
\* ---------------------------------------------------------------------------
Init ==
    /\ dryrun \in BOOLEAN
    /\ \/ /\ entry = "GrowContainer"
          /\ id = EmptyStr
          /\ container \in {NilPtr} \cup {Ptr(d) : d \in DiskInfos}
          /\ pc = "GrowContainer"
       \/ /\ entry = "run"
          /\ id \in Targets
          /\ container = NilPtr
          /\ pc = "run"
    /\ phy = NilPtr
    /\ direct = NoCall
    /\ validated = NilPtr
    /\ totalFree = NilPtr
    /\ growPartitions = NilPtr
    /\ growTarget = NilPtr
    /\ calls = << >>
    /\ implCalls = << >>
    /\ ret = NoResult
    /\ implRet = NoResult
    /\ growRet = NilPtr
    /\ runRet = NilPtr
    /\ timeout = 0
    /\ ctx = Background
    /\ cmdRet = NilPtr
    /\ euid = 0

Next ==
    \/ GrowStart
    \/ GrowInfo
    \/ GrowRepair
    \/ GrowList
    \/ GrowResize
    \/ \E stage \in {"run", "refresh"} : GetTargetDiskInfoRoot(stage)
    \/ \E stage \in {"run", "refresh"} : GetTargetDiskInfoList(stage)
    \/ \E stage \in {"run", "refresh"} : GetTargetDiskInfoInfo(stage)

Spec == Init /\ [][Next]_vars

\* ---------------------------------------------------------------------------
\* Specification of the facade alone: a caller makes any calls, in any order,
\* on the implementation or on Dryrun(impl)
\* ---------------------------------------------------------------------------
ClientInvoke(call, out) ==
    /\ Len(calls) < MaxCalls
    /\ calls' = Append(calls, Logged("client", call, out))
    /\ implCalls' = implCalls \o out.fwd
    /\ ret' = out.ret
    /\ implRet' = out.impl
    /\ UNCHANGED <<cmdVars, entry, direct, validated, dryrun, id, pc, container, phy, totalFree, growPartitions, growTarget, growRet, runRet>>

ClientInfo ==
    \E a \in {disk1} : \E implResp \in InfoResults :
        ClientInvoke(Call("Info", a, EmptyStr), u_Info(a, implResp))

ClientList ==
    \E implResp \in ListResults :
        ClientInvoke(Call("List", EmptyStr, EmptyStr), u_List(implResp))

ClientRepairDisk ==
    \E a \in {disk0} : \E implResp \in RepairResults :
        ClientInvoke(Call("RepairDisk", a, EmptyStr), u_RepairDisk(a, implResp))

ClientResizeContainer ==
    \E a \in {disk1} : \E size \in {sizeMax} : \E implResp \in ResizeResults :
        ClientInvoke(Call("ResizeContainer", a, size), u_ResizeContainer(a, size, implResp))

InitFacade ==
    /\ dryrun \in BOOLEAN
    /\ entry = "client"
    /\ id = EmptyStr
    /\ pc = "client"
    /\ container = NilPtr
    /\ phy = NilPtr
    /\ direct = NoCall
    /\ validated = NilPtr
    /\ totalFree = NilPtr
    /\ growPartitions = NilPtr
    /\ growTarget = NilPtr
    /\ calls = << >>
    /\ implCalls = << >>
    /\ ret = NoResult
    /\ implRet = NoResult
    /\ growRet = NilPtr
    /\ runRet = NilPtr
    /\ timeout = 0
    /\ ctx = Background
    /\ cmdRet = NilPtr
    /\ euid = 0

NextFacade ==
    \/ ClientInfo
    \/ ClientList
    \/ ClientRepairDisk
    \/ ClientResizeContainer

SpecFacade == InitFacade /\ [][NextFacade]_vars

\* ---------------------------------------------------------------------------
\* Specification: GrowContainer invoked again after a successful grow
\* ---------------------------------------------------------------------------
\* the caller invokes GrowContainer on the same container once more, after an
\* invocation that resized and returned nil
GrowAgain ==
    /\ entry = "GrowContainer"
    /\ pc = "done"
    /\ growRet = Ptr(NoErr)
    /\ \E i \in 1..Len(implCalls) : implCalls[i].op = "ResizeContainer"
    /\ entry' = "again"
    /\ pc' = "GrowContainer"
    /\ phy' = NilPtr
    /\ totalFree' = NilPtr
    /\ growPartitions' = NilPtr
    /\ growTarget' = NilPtr
    /\ calls' = << >>
    /\ implCalls' = << >>
    /\ growRet' = NilPtr
    /\ UNCHANGED <<cmdVars, direct, validated, dryrun, id, container, ret, implRet, runRet>>

NextAgain ==
    \/ GrowStart
    \/ GrowInfo
    \/ GrowRepair
    \/ GrowList
    \/ GrowResize
    \/ GrowAgain

InitAgain ==
    /\ Init
    /\ entry = "GrowContainer"

SpecAgain == InitAgain /\ [][NextAgain]_vars

\* ---------------------------------------------------------------------------
\* Specification: a caller of the functions of the types and cmd packages
\* ---------------------------------------------------------------------------
\* the identifiers a caller looks up or validates
LookupIds == {disk0, DISK0, disk1, disk9, EmptyStr}

\* the caller's call returns: only direct changes
Returned(fn, args, out) ==
    /\ direct' = DirectCall(fn, args, out)
    /\ UNCHANGED <<cmdVars, entry, validated, dryrun, id, pc, container, phy, totalFree,
                   growPartitions, growTarget, calls, implCalls, ret, implRet, growRet, runRet>>

\* p.AvailableDiskSpace(id)
CallAvailableDiskSpace ==
    \E r \in ListResults : \E a \in LookupIds :
        /\ r.err = NoErr
        /\ Returned("AvailableDiskSpace", <<Deref(r.val), a>>,
                    AvailableDiskSpace(Deref(r.val), a))

\* the physical-store identifiers a caller's records carry
disk10s2 == <<"d", "i", "s", "k", "1", "0", "s", "2">>
CallerStoreIds == {disk0s2, disk10s2, xdisk0, vol, diskNoNum, EmptyStr}
CallerStoreSlices ==
    {NilSlice}
    \cup {Slice(st) : st \in UNION {[1..n -> {APFSPhysicalStore(i) : i \in CallerStoreIds}] :
                                        n \in 0..MaxStores}}

\* d.ParentDeviceID()
CallParentDeviceID ==
    \E st \in CallerStoreSlices :
        LET d == DiskInfo(ZeroContainerInfo, EmptyStr, st, disk1, disk1, "Virtual")
        IN Returned("ParentDeviceID", <<d>>, ParentDeviceID(d))

\* the targets a caller has validated
CallerTargets == Targets \cup {disk0, DISK0, disk0s2, xdisk0, diskNoNum}

\* validateDeviceID(id, partitions)
CallValidateDeviceID ==
    \E a \in CallerTargets : \E r \in TargetListResults :
        /\ r.err = NoErr
        /\ Returned("validateDeviceID", <<a, Deref(r.val)>>,
                    validateDeviceID(a, Deref(r.val)))

InitCaller ==
    /\ entry = "caller"
    /\ dryrun = FALSE
    /\ id = EmptyStr
    /\ pc = "done"
    /\ container = NilPtr
    /\ phy = NilPtr
    /\ direct = NoCall
    /\ validated = NilPtr
    /\ totalFree = NilPtr
    /\ growPartitions = NilPtr
    /\ growTarget = NilPtr
    /\ calls = << >>
    /\ implCalls = << >>
    /\ ret = NoResult
    /\ implRet = NoResult
    /\ growRet = NilPtr
    /\ runRet = NilPtr
    /\ timeout = 0
    /\ ctx = Background
    /\ cmdRet = NilPtr
    /\ euid = 0

NextCaller ==
    \/ CallAvailableDiskSpace
    \/ CallParentDeviceID
    \/ CallValidateDeviceID

SpecCaller == InitCaller /\ [][NextCaller]_vars

\* ---------------------------------------------------------------------------
\* Specification of getDiskFreeSpace alone: one call, on any disk and on any
\* results of List, those of another implementation of the facade included
\* ---------------------------------------------------------------------------
\* (nil, nil): the results a generated mock of DiskUtil can be told to give
NilListResult == Result(NilPtr, NoErr)

FreeSpaceDisks ==
    {DiskInfo(ZeroContainerInfo, EmptyStr, st, disk1, disk1, "Physical") : st \in CallerStoreSlices}

CallGetDiskFreeSpace ==
    /\ direct = NoCall
    /\ \E listRet \in ListResults \cup {NilListResult} : \E disk \in FreeSpaceDisks :
           Returned("getDiskFreeSpace", <<listRet, disk>>, getDiskFreeSpace(listRet, disk))

NextFreeSpace == CallGetDiskFreeSpace

SpecFreeSpace == InitCaller /\ [][NextFreeSpace]_vars

\* ---------------------------------------------------------------------------
\* Specification of the grow command: RunE installs the deadline, calls run
\* under it, and replaces run's error once the deadline has elapsed
\* ---------------------------------------------------------------------------
\* growDefaultTimeout = 5 * time.Minute, in seconds
growDefaultTimeout == 300

\* the values of the --timeout flag: disabled, or the default
Timeouts == {0, growDefaultTimeout}

\* the targets the command is run with
CommandTargets == {rootStr, disk1, disk9}

\* the product found in the context: none, or a release
\* system.Release: the releases getVersionRelease tells apart, and the two
\* later ones ForProduct has a case for
Releases ==
    {"Unknown", "Mojave", "Catalina", "BigSur", "Monterey", "Ventura", "Sonoma", "Sequoia",
     "CompatMode"}
Products == {NilPtr} \cup {Ptr(r) : r \in Releases}

\* variant: the compatibility-mode release served like the latest one
ForProduct_CompatAsLatest(p) ==
    CASE p = "Mojave" -> Result(Ptr("diskutilMojave"), NoErr)
      [] p = "Catalina" -> Result(Ptr("diskutilCatalina"), NoErr)
      [] p = "BigSur" -> Result(Ptr("diskutilBigSur"), NoErr)
      [] p = "Monterey" -> Result(Ptr("diskutilMonterey"), NoErr)
      [] p = "Ventura" -> Result(Ptr("diskutilVentura"), NoErr)
      [] p \in {"Sonoma", "Sequoia", "CompatMode"} -> Result(Ptr("diskutilSonoma"), NoErr)
      [] OTHER -> Result(NilPtr, ErrorsNew("unknown release"))

\* diskutil.ForProduct: the type of the facade it makes for a release, or
\* (nil, "unknown release")
ForProduct(p) ==
    CASE p = "Mojave" -> Result(Ptr("diskutilMojave"), NoErr)
      [] p = "Catalina" -> Result(Ptr("diskutilCatalina"), NoErr)
      [] p = "BigSur" -> Result(Ptr("diskutilBigSur"), NoErr)
      [] p = "Monterey" -> Result(Ptr("diskutilMonterey"), NoErr)
      [] p = "Ventura" -> Result(Ptr("diskutilVentura"), NoErr)
      [] p \in {"Sonoma", "Sequoia"} -> Result(Ptr("diskutilSonoma"), NoErr)
      [] OTHER -> Result(NilPtr, ErrorsNew("unknown release"))

\* context.WithTimeout(parent, d): a child of parent with a deadline
WithTimeout(parent, d) == Context(TRUE, parent.err, parent.after)

\* variant: the deadline installed whatever the timeout
InstallDeadline_Always(c, d) == WithTimeout(c, d)

\* lines 58-61: the context run is called under
InstallDeadline(c, d) == IF d # 0 THEN WithTimeout(c, d) ELSE c

\* variant: run's error returned as it is
CommandErr_StepError(c, err) == err

\* lines 79-87: the error RunE returns once run has returned err
CommandErr(c, err) ==
    IF err # NoErr
    THEN IF c.err = "DeadlineExceeded" THEN ErrorsNew("timeout exceeded") ELSE err
    ELSE NoErr

\* lines 58-78: RunE up to the call of run
CommandStart ==
    /\ pc = "command"
    /\ ctx' = InstallDeadline(ctx, timeout)
    /\ \E product \in Products :
        IF product = NilPtr
        THEN cmdRet' = Ptr(ErrorsNew("product required in context")) /\ pc' = "done"
        ELSE IF ForProduct(Deref(product)).err # NoErr
        THEN cmdRet' = Ptr(ForProduct(Deref(product)).err) /\ pc' = "done"
        ELSE cmdRet' = cmdRet /\ pc' = "run"
    /\ UNCHANGED <<euid, timeout, entry, direct, validated, dryrun, id, container, phy, totalFree,
                   growPartitions, growTarget, calls, implCalls, ret, implRet, growRet, runRet>>

\* the deadline of the context elapses, at any moment before RunE returns
DeadlineElapses ==
    /\ ctx.hasDeadline
    /\ ctx.err = ""
    /\ cmdRet = NilPtr
    /\ ctx' = Context(TRUE, "DeadlineExceeded", Len(calls))
    /\ UNCHANGED <<euid, timeout, cmdRet, entry, direct, validated, dryrun, id, pc, container, phy,
                   totalFree, growPartitions, growTarget, calls, implCalls, ret, implRet, growRet, runRet>>

\* lines 79-87: run has returned, RunE returns
CommandReturn ==
    /\ runRet # NilPtr
    /\ cmdRet = NilPtr
    /\ cmdRet' = Ptr(CommandErr(ctx, Deref(runRet)))
    /\ UNCHANGED <<euid, timeout, ctx, entry, direct, validated, dryrun, id, pc, container, phy,
                   totalFree, growPartitions, growTarget, calls, implCalls, ret, implRet, growRet, runRet>>

InitCommand ==
    /\ entry = "run"
    /\ pc = "command"
    /\ dryrun \in BOOLEAN
    /\ id \in CommandTargets
    /\ timeout \in Timeouts
    /\ ctx = Background
    /\ cmdRet = NilPtr
    /\ euid = 0
    /\ container = NilPtr
    /\ phy = NilPtr
    /\ direct = NoCall
    /\ validated = NilPtr
    /\ totalFree = NilPtr
    /\ growPartitions = NilPtr
    /\ growTarget = NilPtr
    /\ calls = << >>
    /\ implCalls = << >>
    /\ ret = NoResult
    /\ implRet = NoResult
    /\ growRet = NilPtr
    /\ runRet = NilPtr

NextCommand ==
    \/ CommandStart
    \/ DeadlineElapses
    \/ CommandReturn
    \/ GrowStart
    \/ GrowInfo
    \/ GrowRepair
    \/ GrowList
    \/ GrowResize
    \/ \E stage \in {"run", "refresh"} : GetTargetDiskInfoRoot(stage)
    \/ \E stage \in {"run", "refresh"} : GetTargetDiskInfoList(stage)
    \/ \E stage \in {"run", "refresh"} : GetTargetDiskInfoInfo(stage)

SpecCommand == InitCommand /\ [][NextCommand]_vars

\* ---------------------------------------------------------------------------
\* Specification of the grow command as cobra executes it: PreRunE, and RunE
\* only when PreRunE returned nil
\* ---------------------------------------------------------------------------
\* the effective user ids: root, and a login user
Euids == {0, 501}

hasRootPrivileges(e) == e = 0

\* variant: the check passes for every user
assertRootPrivileges_Pass(e) == NoErr

\* assertRootPrivileges: the error of the pre-run check
assertRootPrivileges(e) ==
    IF ~hasRootPrivileges(e)
    THEN ErrorsNew("root privileges required, re-run command with sudo")
    ELSE NoErr

\* cmd.PreRunE = assertRootPrivileges: its error ends the command, RunE is
\* entered otherwise
PreRun ==
    /\ pc = "prerun"
    /\ IF assertRootPrivileges(euid) # NoErr
       THEN cmdRet' = Ptr(assertRootPrivileges(euid)) /\ pc' = "done"
       ELSE cmdRet' = cmdRet /\ pc' = "command"
    /\ UNCHANGED <<euid, timeout, ctx, entry, direct, validated, dryrun, id, container, phy,
                   totalFree, growPartitions, growTarget, calls, implCalls, ret, implRet, growRet, runRet>>

InitMain ==
    /\ entry = "run"
    /\ pc = "prerun"
    /\ euid \in Euids
    /\ dryrun \in BOOLEAN
    /\ id \in CommandTargets
    /\ timeout \in Timeouts
    /\ ctx = Background
    /\ cmdRet = NilPtr
    /\ container = NilPtr
    /\ phy = NilPtr
    /\ direct = NoCall
    /\ validated = NilPtr
    /\ totalFree = NilPtr
    /\ growPartitions = NilPtr
    /\ growTarget = NilPtr
    /\ calls = << >>
    /\ implCalls = << >>
    /\ ret = NoResult
    /\ implRet = NoResult
    /\ growRet = NilPtr
    /\ runRet = NilPtr

NextMain ==
    \/ PreRun
    \/ NextCommand

SpecMain == InitMain /\ [][NextMain]_vars

\* ---------------------------------------------------------------------------
\* internal/diskutil: the facade's implementations. DiskUtilityCmd runs the
\* tool, PlistDecoder decodes its output, list and info put the two together,
\* and the Mojave variant backfills the physical stores with a second command
\* ---------------------------------------------------------------------------
\* types.DiskInfo and types.DiskPart with the fields the backfill reads
MojaveDiskInfo(dev, stores, fs, io) ==
    [DeviceIdentifier |-> dev, APFSPhysicalStores |-> stores,
     FilesystemType |-> fs, IORegistryEntryName |-> io]
ZeroMojaveDiskInfo == MojaveDiskInfo(EmptyStr, << >>, "", "")
MojaveDiskPart(dev, vols, stores) ==
    [DeviceIdentifier |-> dev, APFSVolumes |-> vols, APFSPhysicalStores |-> stores]
MojavePartitions(dps) == [AllDisksAndPartitions |-> dps]
ZeroMojavePartitions == MojavePartitions(<< >>)

\* the records the tool's plist output stands for
DecodedInfos ==
    {MojaveDiskInfo(disk1, << >>, fs, io) :
        fs \in {"apfs", "hfs"}, io \in {"AppleAPFSMedia", ""}}
    \cup {MojaveDiskInfo(disk1, <<[DeviceIdentifier |-> disk10s2]>>, fs, "") :
            fs \in {"apfs", "hfs"}}
DecodedParts ==
    {MojaveDiskPart(dev, vols, << >>) :
        dev \in {disk0, disk1}, vols \in {NilSlice, Slice(<<disk1>>)}}
    \cup {MojaveDiskPart(disk1, vols, <<[DeviceIdentifier |-> disk10s2]>>) :
            vols \in {NilSlice, Slice(<<disk1>>)}}
DecodedLists ==
    {MojavePartitions(dps) : dps \in UNION {[1..n -> DecodedParts] : n \in 0..MaxDisks}}

\* the bytes handed to the decoder: nothing, a plist of record rec, bytes
\* that are no plist, or bytes on which the plist parser panics
Raw(kind, rec) == [kind |-> kind, rec |-> rec]
RawEmpty == Raw("empty", << >>)
RawGarbage == Raw("garbage", << >>)
RawPanics == Raw("panics", << >>)
RawInfos == {RawEmpty, RawGarbage, RawPanics} \cup {Raw("plist", d) : d \in DecodedInfos}
RawLists == {RawEmpty, RawGarbage, RawPanics} \cup {Raw("plist", l) : l \in DecodedLists}

\* variant: an empty document is an error
PlistDecode_EmptyIsError(raw, zero) ==
    CASE raw.kind = "empty" -> [val |-> zero, err |-> ErrorsNew("EOF"), panicked |-> FALSE]
      [] raw.kind = "plist" -> [val |-> raw.rec, err |-> NoErr, panicked |-> FALSE]
      [] raw.kind = "garbage" ->
            [val |-> zero, err |-> ErrorsNew("plist: invalid document"), panicked |-> FALSE]
      [] raw.kind = "panics" -> [val |-> zero, err |-> NoErr, panicked |-> TRUE]

\* plist.NewDecoder(reader).Decode(v) for v holding the zero record: what is
\* in v afterwards, the error, and whether Decode panicked. An empty
\* document is an empty dictionary and leaves v as it is
PlistDecode(raw, zero) ==
    CASE raw.kind = "empty" -> [val |-> zero, err |-> NoErr, panicked |-> FALSE]
      [] raw.kind = "plist" -> [val |-> raw.rec, err |-> NoErr, panicked |-> FALSE]
      [] raw.kind = "garbage" ->
            [val |-> zero, err |-> ErrorsNew("plist: invalid document"), panicked |-> FALSE]
      [] raw.kind = "panics" -> [val |-> zero, err |-> NoErr, panicked |-> TRUE]

\* what a decoder call comes to: its results, and whether a panic left it
Decoded(val, err, escaped) == [ret |-> Result(val, err), escaped |-> escaped]

\* variant: no deferred recover, and the record kept when Decode fails
DecodeWith_Unguarded(raw, zero, what) ==
    LET r == PlistDecode(raw, zero)
    IN IF r.panicked THEN Decoded(Ptr(r.val), NoErr, TRUE)
       ELSE IF r.err # NoErr THEN Decoded(Ptr(r.val), ErrorsNew(what), FALSE)
       ELSE Decoded(Ptr(r.val), NoErr, FALSE)

\* the body DecodeSystemPartitions and DecodeDiskInfo share: the deferred
\* recover sets (nil, "decoder panicked"), a Decode error gives (nil, what)
DecodeWith(raw, zero, what) ==
    LET r == PlistDecode(raw, zero)
    IN IF r.panicked THEN Decoded(NilPtr, ErrorsNew("decoder panicked"), FALSE)
       ELSE IF r.err # NoErr THEN Decoded(NilPtr, ErrorsNew(what), FALSE)
       ELSE Decoded(Ptr(r.val), NoErr, FALSE)

DecodeSystemPartitions(raw) == DecodeWith(raw, ZeroMojavePartitions, "error decoding list")
DecodeDiskInfo(raw) == DecodeWith(raw, ZeroMojaveDiskInfo, "error decoding disk info")

\* util.ExecuteCommand's results: the captured output and the error
CommandOutput(stdout, stderr, err) == [Stdout |-> stdout, Stderr |-> stderr, err |-> err]
ExitErr == ErrorsNew("exit status 1")

\* DiskUtilityCmd.List and DiskUtilityCmd.Info: (stdout, error)
DiskUtilityCmd_List(cmdOut) ==
    IF cmdOut.err # NoErr
    THEN Result(cmdOut.Stdout,
                Wrap("diskutil: failed to run diskutil command to list all disks", cmdOut.err))
    ELSE Result(cmdOut.Stdout, NoErr)
DiskUtilityCmd_Info(cmdOut) ==
    IF cmdOut.err # NoErr
    THEN Result(cmdOut.Stdout,
                Wrap("diskutil: failed to run diskutil command to fetch disk information", cmdOut.err))
    ELSE Result(cmdOut.Stdout, NoErr)

\* what a facade call comes to: its results, the decoder calls it made and
\* the backfill commands it ran
Fetched(val, err, decodes, fetches) ==
    [ret |-> Result(val, err), decodes |-> decodes, fetches |-> fetches]

\* variant: the output decoded whatever the command's error
list_DecodeAnyway(cmdOut) ==
    LET d == DecodeSystemPartitions(DiskUtilityCmd_List(cmdOut).val)
    IN Fetched(d.ret.val, d.ret.err, 1, 0)

\* list: util.List, then decoder.DecodeSystemPartitions
list(cmdOut) ==
    LET raw == DiskUtilityCmd_List(cmdOut)
    IN IF raw.err # NoErr THEN Fetched(NilPtr, raw.err, 0, 0)
       ELSE LET d == DecodeSystemPartitions(raw.val)
            IN IF d.ret.err # NoErr THEN Fetched(NilPtr, d.ret.err, 1, 0)
               ELSE Fetched(d.ret.val, NoErr, 1, 0)

\* info: util.Info, then decoder.DecodeDiskInfo
info(cmdOut) ==
    LET raw == DiskUtilityCmd_Info(cmdOut)
    IN IF raw.err # NoErr THEN Fetched(NilPtr, raw.err, 0, 0)
       ELSE LET d == DecodeDiskInfo(raw.val)
            IN IF d.ret.err # NoErr THEN Fetched(NilPtr, d.ret.err, 1, 0)
               ELSE Fetched(d.ret.val, NoErr, 1, 0)

\* end of the run of "s[0-9]+" groups that follows position j of s
RECURSIVE SliceRunEnd(_, _)
SliceRunEnd(s, j) ==
    IF j + 2 <= Len(s) /\ s[j + 1] = "s" /\ s[j + 2] \in Digits
    THEN SliceRunEnd(s, DigitRunEnd(s, j + 2))
    ELSE j

PhysicalStoreToken == <<"P", "h", "y", "s", "i", "c", "a", "l", " ", "S", "t", "o", "r", "e", " ">>

\* does "Physical Store disk[0-9]+" match at position i of s
PhysicalStoreMatchAt(s, i) ==
    /\ i + Len(PhysicalStoreToken) - 1 <= Len(s)
    /\ SubSeq(s, i, i + Len(PhysicalStoreToken) - 1) = PhysicalStoreToken
    /\ DiskIDMatchAt(s, i + Len(PhysicalStoreToken))

\* parsePhysicalStoreId: the disk id of the leftmost "Physical Store" field
parsePhysicalStoreId(raw) ==
    IF \E i \in 1..Len(raw) : PhysicalStoreMatchAt(raw, i)
    THEN LET i == CHOOSE k \in 1..Len(raw) :
                     /\ PhysicalStoreMatchAt(raw, k)
                     /\ \A m \in 1..(k - 1) : ~PhysicalStoreMatchAt(raw, m)
             j == i + Len(PhysicalStoreToken)
         IN Result(SubSeq(raw, j, SliceRunEnd(raw, DigitRunEnd(raw, j + 4))), NoErr)
    ELSE Result(EmptyStr, ErrorsNew("physical store not found"))

\* fetchPhysicalStore: "diskutil list id", then parsePhysicalStoreId
fetchPhysicalStore(cmdOut) ==
    IF cmdOut.err # NoErr
    THEN Result(EmptyStr, Wrap("stderr", cmdOut.err))
    ELSE parsePhysicalStoreId(cmdOut.Stdout)

\* the human-readable output of "diskutil list id"
StoreLine == <<" ">> \o PhysicalStoreToken \o disk0s2 \o <<"\n">>
NoStoreLine == <<"0", ":", " ", "G", "U", "I", "D">>
FetchOutputs ==
    {CommandOutput(StoreLine, EmptyStr, NoErr),
     CommandOutput(NoStoreLine, EmptyStr, NoErr),
     CommandOutput(EmptyStr, EmptyStr, ExitErr)}

isAPFSVolume(part) == part.APFSVolumes # NilSlice
isAPFSMedia(disk) == disk.FilesystemType = "apfs" \/ disk.IORegistryEntryName = "AppleAPFSMedia"

\* updatePhysicalStores from entry i on: the entries as the loop leaves
\* them, its error, and the commands it ran; fetches[i] is the outcome of
\* the command for entry i
RECURSIVE updatePhysicalStoresFrom(_, _, _, _)
updatePhysicalStoresFrom(dps, i, fetches, n) ==
    IF i > Len(dps) THEN [dps |-> dps, err |-> NoErr, fetches |-> n]
    ELSE IF isAPFSVolume(dps[i])
    THEN LET f == fetchPhysicalStore(fetches[i])
         IN IF f.err # NoErr THEN [dps |-> dps, err |-> f.err, fetches |-> n + 1]
            ELSE updatePhysicalStoresFrom(
                     [dps EXCEPT ![i].APFSPhysicalStores =
                                     Append(dps[i].APFSPhysicalStores, [DeviceIdentifier |-> f.val])],
                     i + 1, fetches, n + 1)
    ELSE updatePhysicalStoresFrom(dps, i + 1, fetches, n)

updatePhysicalStores(partitions, fetches) ==
    updatePhysicalStoresFrom(partitions.AllDisksAndPartitions, 1, fetches, 0)

\* variant: the stores replaced by the one fetched
updatePhysicalStore_Replace(disk, fetch) ==
    IF isAPFSMedia(disk)
    THEN LET f == fetchPhysicalStore(fetch)
         IN IF f.err # NoErr THEN [disk |-> disk, err |-> f.err, fetches |-> 1]
            ELSE [disk |-> [disk EXCEPT !.APFSPhysicalStores = <<[DeviceIdentifier |-> f.val]>>],
                  err |-> NoErr, fetches |-> 1]
    ELSE [disk |-> disk, err |-> NoErr, fetches |-> 0]

\* updatePhysicalStore: the record as it is left, the error, the commands run
updatePhysicalStore(disk, fetch) ==
    IF isAPFSMedia(disk)
    THEN LET f == fetchPhysicalStore(fetch)
         IN IF f.err # NoErr THEN [disk |-> disk, err |-> f.err, fetches |-> 1]
            ELSE [disk |-> [disk EXCEPT !.APFSPhysicalStores =
                                Append(disk.APFSPhysicalStores, [DeviceIdentifier |-> f.val])],
                  err |-> NoErr, fetches |-> 1]
    ELSE [disk |-> disk, err |-> NoErr, fetches |-> 0]

\* variant: the record dropped when the backfill fails
diskutilMojave_List_NilOnError(cmdOut, fetches) ==
    LET l == list(cmdOut)
    IN IF l.ret.err # NoErr THEN Fetched(NilPtr, l.ret.err, l.decodes, 0)
       ELSE LET u == updatePhysicalStores(Deref(l.ret.val), fetches)
            IN IF u.err # NoErr THEN Fetched(NilPtr, u.err, l.decodes, u.fetches)
               ELSE Fetched(Ptr(MojavePartitions(u.dps)), NoErr, l.decodes, u.fetches)

\* diskutilMojave.List
diskutilMojave_List(cmdOut, fetches) ==
    LET l == list(cmdOut)
    IN IF l.ret.err # NoErr THEN Fetched(NilPtr, l.ret.err, l.decodes, 0)
       ELSE LET u == updatePhysicalStores(Deref(l.ret.val), fetches)
            IN Fetched(Ptr(MojavePartitions(u.dps)), u.err, l.decodes, u.fetches)

\* diskutilMojave.Info
diskutilMojave_Info(cmdOut, fetch) ==
    LET d == info(cmdOut)
    IN IF d.ret.err # NoErr THEN Fetched(NilPtr, d.ret.err, d.decodes, 0)
       ELSE LET u == updatePhysicalStore(Deref(d.ret.val), fetch)
            IN Fetched(Ptr(u.disk), u.err, d.decodes, u.fetches)

\* List and Info of every later release
diskutilCatalina_List(cmdOut) == list(cmdOut)
diskutilCatalina_Info(cmdOut) == info(cmdOut)

\* d.List and d.Info for a facade d of the type ForProduct made
Facade_List(d, cmdOut, fetches) ==
    IF d = "diskutilMojave" THEN diskutilMojave_List(cmdOut, fetches)
    ELSE diskutilCatalina_List(cmdOut)
Facade_Info(d, cmdOut, fetch) ==
    IF d = "diskutilMojave" THEN diskutilMojave_Info(cmdOut, fetch)
    ELSE diskutilCatalina_Info(cmdOut)

\* what the tool's list and info verbs can put out
ListOutputs ==
    {CommandOutput(raw, EmptyStr, err) : raw \in RawLists, err \in {NoErr, ExitErr}}
InfoOutputs ==
    {CommandOutput(raw, EmptyStr, err) : raw \in RawInfos, err \in {NoErr, ExitErr}}
FetchSeqs == [1..MaxDisks -> FetchOutputs]

\* ---------------------------------------------------------------------------
\* Specification of the implementations: a caller makes one call, of a
\* decoder on any output or of List or Info of either variant on any outcome
\* of the commands
\* ---------------------------------------------------------------------------
CallDecodeSystemPartitions ==
    /\ direct = NoCall
    /\ \E raw \in RawLists :
           Returned("DecodeSystemPartitions", <<raw>>, DecodeSystemPartitions(raw))

CallDecodeDiskInfo ==
    /\ direct = NoCall
    /\ \E raw \in RawInfos :
           Returned("DecodeDiskInfo", <<raw>>, DecodeDiskInfo(raw))

CallMojaveList ==
    /\ direct = NoCall
    /\ \E cmdOut \in ListOutputs : \E fetches \in FetchSeqs :
           Returned("diskutilMojave.List", <<cmdOut, fetches>>, diskutilMojave_List(cmdOut, fetches))

CallMojaveInfo ==
    /\ direct = NoCall
    /\ \E cmdOut \in InfoOutputs : \E fetch \in FetchOutputs :
           Returned("diskutilMojave.Info", <<cmdOut, fetch>>, diskutilMojave_Info(cmdOut, fetch))

CallCatalinaList ==
    /\ direct = NoCall
    /\ \E cmdOut \in ListOutputs :
           Returned("diskutilCatalina.List", <<cmdOut>>, diskutilCatalina_List(cmdOut))

CallCatalinaInfo ==
    /\ direct = NoCall
    /\ \E cmdOut \in InfoOutputs :
           Returned("diskutilCatalina.Info", <<cmdOut>>, diskutilCatalina_Info(cmdOut))

NextImpl ==
    \/ CallDecodeSystemPartitions
    \/ CallDecodeDiskInfo
    \/ CallMojaveList
    \/ CallMojaveInfo
    \/ CallCatalinaList
    \/ CallCatalinaInfo

SpecImpl == InitCaller /\ [][NextImpl]_vars

\* ---------------------------------------------------------------------------
\* internal/util: ExecuteCommand and the resolution of runAsUser
\* ---------------------------------------------------------------------------
DigitSeq == <<"0", "1", "2", "3", "4", "5", "6", "7", "8", "9">>
DigitValue(c) == (CHOOSE i \in 1..10 : DigitSeq[i] = c) - 1

\* the value of a run of decimal digits
RECURSIVE DecimalValue(_)
DecimalValue(s) ==
    IF s = << >> THEN 0 ELSE 10 * DecimalValue(SubSeq(s, 1, Len(s) - 1)) + DigitValue(s[Len(s)])

\* strconv.Atoi for the values in range: an optional sign, then digits only
Atoi(s) ==
    LET signed == s # << >> /\ s[1] \in {"+", "-"}
        digits == IF signed THEN Tail(s) ELSE s
    IN IF digits = << >> \/ \E i \in 1..Len(digits) : digits[i] \notin Digits
       THEN [val |-> 0, err |-> ErrorsNew("strconv.Atoi: invalid syntax")]
       ELSE [val |-> IF signed /\ s[1] = "-" THEN 0 - DecimalValue(digits) ELSE DecimalValue(digits),
             err |-> NoErr]

\* a line "key: value" of dscacheutil's output, or a line without ": "
KeyValue(key, val) == [key |-> key, val |-> val, split |-> TRUE]
OtherLine == [key |-> EmptyStr, val |-> EmptyStr, split |-> FALSE]

uidKey == <<"u", "i", "d">>
gidKey == <<"g", "i", "d">>
UIDKey == <<"U", "I", "D">>
nameKey == <<"n", "a", "m", "e">>
uid501 == <<"5", "0", "1">>
gid20 == <<"2", "0">>
uidNobody == <<"-", "2">>
notANumber == <<"x", "1">>

\* extractDSCacheUtilKeyValues(text, {"gid", "uid"}) for the first n lines:
\* the value of the last line whose key is key in any letter case, per key
RECURSIVE extractDSCacheUtilKeyValues(_, _)
extractDSCacheUtilKeyValues(lines, n) ==
    IF n = 0 THEN [uid |-> NilPtr, gid |-> NilPtr]
    ELSE LET before == extractDSCacheUtilKeyValues(lines, n - 1)
             kv == lines[n]
         IN IF ~kv.split THEN before
            ELSE [uid |-> IF EqualFold(kv.key, uidKey) THEN Ptr(kv.val) ELSE before.uid,
                  gid |-> IF EqualFold(kv.key, gidKey) THEN Ptr(kv.val) ELSE before.gid]

\* what getUIDandGID returns, and the methods it tried
Resolved(uid, gid, err, tried) == [uid |-> uid, gid |-> gid, err |-> err, tried |-> tried]

\* lines 232-247: the check of the two strings and their parsing
ParseIDs(uidstr, gidstr, tried) ==
    IF uidstr = EmptyStr \/ gidstr = EmptyStr
    THEN Resolved(0, 0, ErrorsNew("user: no user extracted"), tried)
    ELSE IF Atoi(uidstr).err # NoErr
    THEN Resolved(0, 0, Wrap("parse uid", Atoi(uidstr).err), tried)
    ELSE IF Atoi(gidstr).err # NoErr
    THEN Resolved(0, 0, Wrap("parse gid", Atoi(gidstr).err), tried)
    ELSE Resolved(Atoi(uidstr).val, Atoi(gidstr).val, NoErr, tried)

\* variant: dscacheutil asked first
getUIDandGID_CacheFirst(lookup, ds) ==
    IF ds.err = NoErr /\ ds.Stdout # << >>
    THEN LET extracted == extractDSCacheUtilKeyValues(ds.Stdout, Len(ds.Stdout))
         IN ParseIDs(IF extracted.uid = NilPtr THEN EmptyStr ELSE Deref(extracted.uid),
                     IF extracted.gid = NilPtr THEN EmptyStr ELSE Deref(extracted.gid),
                     <<"dscacheutil">>)
    ELSE IF lookup.err = NoErr
    THEN ParseIDs(Deref(lookup.val).Uid, Deref(lookup.val).Gid, <<"dscacheutil", "Lookup">>)
    ELSE Resolved(0, 0, Wrap("dscacheutil", ds.err), <<"dscacheutil", "Lookup">>)

\* getUIDandGID: lookup is what user.Lookup returns, ds what the dscacheutil
\* command comes to
getUIDandGID(lookup, ds) ==
    IF lookup.err = NoErr
    THEN ParseIDs(Deref(lookup.val).Uid, Deref(lookup.val).Gid, <<"Lookup">>)
    ELSE IF ds.err # NoErr
    THEN Resolved(0, 0, Wrap("dscacheutil", ds.err), <<"Lookup", "dscacheutil">>)
    ELSE IF Len(ds.Stdout) = 0
    THEN Resolved(0, 0, ErrorsNew("dscacheutil read user"), <<"Lookup", "dscacheutil">>)
    ELSE LET extracted == extractDSCacheUtilKeyValues(ds.Stdout, Len(ds.Stdout))
         IN IF extracted.uid = NilPtr /\ extracted.gid = NilPtr
            THEN Resolved(0, 0, ErrorsNew("dscacheutil read user"), <<"Lookup", "dscacheutil">>)
            ELSE ParseIDs(IF extracted.uid = NilPtr THEN EmptyStr ELSE Deref(extracted.uid),
                          IF extracted.gid = NilPtr THEN EmptyStr ELSE Deref(extracted.gid),
                          <<"Lookup", "dscacheutil">>)

\* uint32(v), as its two 16-bit halves, high half first
Uint32(v) == <<(v \div 65536) % 65536, v % 65536>>

\* what ExecuteCommand comes to: its results, the methods tried to resolve
\* the user, the credential set on the command, and whether cmd.Start ran
Executed(stdout, stderr, err, tried, cred, started) ==
    [ret |-> CommandOutput(stdout, stderr, err), tried |-> tried, cred |-> cred,
     started |-> started]

\* variant: the command started before its arguments are looked at
ExecuteCommand_StartFirst(c, runAsUser, lookup, ds, proc) ==
    Executed(proc.Stdout, proc.Stderr,
             IF Len(c) = 0 THEN ErrorsNew("must provide a command") ELSE NoErr,
             << >>, NilPtr, TRUE)

\* ExecuteCommand(ctx, c, runAsUser, envVars, stdin); proc is what the
\* process does once started: startErr, and its output and error at Wait
ExecuteCommand(c, runAsUser, lookup, ds, proc) ==
    IF Len(c) = 0
    THEN Executed(EmptyStr, EmptyStr, ErrorsNew("must provide a command"), << >>, NilPtr, FALSE)
    ELSE LET r == IF runAsUser # EmptyStr THEN getUIDandGID(lookup, ds)
                  ELSE Resolved(0, 0, NoErr, << >>)
             cred == IF runAsUser # EmptyStr
                     THEN Ptr([Uid |-> Uint32(r.uid), Gid |-> Uint32(r.gid)])
                     ELSE NilPtr
         IN IF r.err # NoErr
            THEN Executed(EmptyStr, EmptyStr, Wrap("error looking up user", r.err),
                          r.tried, NilPtr, FALSE)
            ELSE IF proc.startErr # NoErr
            THEN Executed(EmptyStr, EmptyStr,
                          Wrap("error starting specified command", proc.startErr),
                          r.tried, cred, TRUE)
            ELSE IF proc.err # NoErr
            THEN Executed(proc.Stdout, proc.Stderr,
                          Wrap("error waiting for specified command to exit", proc.err),
                          r.tried, cred, TRUE)
            ELSE Executed(proc.Stdout, proc.Stderr, NoErr, r.tried, cred, TRUE)

\* the inputs: argument vectors, users, and what the system answers
ec2user == <<"e", "c", "2", "-", "u", "s", "e", "r">>
diskutilCmd == <<"d", "i", "s", "k", "u", "t", "i", "l">>
Argvs == {<< >>, <<diskutilCmd>>, <<diskutilCmd, <<"l", "i", "s", "t">>>>}
RunAsUsers == {EmptyStr, ec2user}
LookupResults ==
    {Result(Ptr([Uid |-> uid501, Gid |-> gid20]), NoErr),
     Result(NilPtr, ErrorsNew("user: unknown user"))}
CacheLines ==
    {KeyValue(uidKey, uid501), KeyValue(UIDKey, uidNobody), KeyValue(gidKey, gid20),
     KeyValue(gidKey, notANumber), KeyValue(gidKey, EmptyStr), KeyValue(nameKey, ec2user),
     OtherLine}
CacheOutputs ==
    {CommandOutput(EmptyStr, EmptyStr, ExitErr)}
    \cup {CommandOutput(lines, EmptyStr, NoErr) :
             lines \in UNION {[1..n -> CacheLines] : n \in 0..MaxLines}}
Processes ==
    {[startErr |-> ErrorsNew("exec: not found"), Stdout |-> EmptyStr, Stderr |-> EmptyStr, err |-> NoErr],
     [startErr |-> NoErr, Stdout |-> ok, Stderr |-> EmptyStr, err |-> NoErr],
     [startErr |-> NoErr, Stdout |-> EmptyStr, Stderr |-> ok, err |-> ExitErr]}

\* ---------------------------------------------------------------------------
\* Specification of the executor: one call of ExecuteCommand
\* ---------------------------------------------------------------------------
CallExecuteCommand ==
    /\ direct = NoCall
    /\ \E c \in Argvs : \E runAsUser \in RunAsUsers : \E lookup \in LookupResults :
       \E ds \in CacheOutputs : \E proc \in Processes :
           Returned("ExecuteCommand", <<c, runAsUser, lookup, ds, proc>>,
                   ExecuteCommand(c, runAsUser, lookup, ds, proc))

NextExec == CallExecuteCommand

SpecExec == InitCaller /\ [][NextExec]_vars

\* ---------------------------------------------------------------------------
\* pkg/diskutil: the earlier revision of GrowContainer, which is handed the
\* partition list and makes its calls on utility without a context
\* ---------------------------------------------------------------------------
MinimumGrowSpaceRequired == 1000000

\* MinimumGrowSpaceError{size}
MinimumGrowSpaceError(size) == <<ErrorLayer("MinimumGrowSpaceError", "grow requires", size)>>

\* err.(MinimumGrowSpaceError): the dynamic type of err itself
IsMinimumGrowSpaceError(err) == Len(err) = 1 /\ err[1].kind = "MinimumGrowSpaceError"

\* what a function of this revision comes to: its message, its error, and
\* the calls it made on utility, in order
Grown(message, err, made) == [message |-> message, err |-> err, calls |-> made]

\* variant: the repair ahead of the free-space check
pkg_repairParentDisk_RepairFirst(disk, partitions, repairResp) ==
    LET parent == ParentDeviceID(disk)
    IN IF parent.err # NoErr
       THEN Grown("failed to get the parent disk ID", parent.err, << >>)
       ELSE LET made == <<Call("RepairDisk", parent.id, EmptyStr)>>
                space == AvailableDiskSpace(partitions, parent.id)
            IN IF repairResp.err # NoErr THEN Grown(repairResp.val, repairResp.err, made)
               ELSE IF space.err # NoErr
               THEN Grown("failed to get available space", space.err, made)
               ELSE IF U64Less(space.size, ToU64(MinimumGrowSpaceRequired))
               THEN Grown(EmptyStr, MinimumGrowSpaceError(space.size), made)
               ELSE Grown(repairResp.val, NoErr, made)

\* repairParentDisk(disk, partitions, utility); repairResp is what
\* utility.RepairDisk answers
pkg_repairParentDisk(disk, partitions, repairResp) ==
    LET parent == ParentDeviceID(disk)
    IN IF parent.err # NoErr
       THEN Grown("failed to get the parent disk ID", parent.err, << >>)
       ELSE LET space == AvailableDiskSpace(partitions, parent.id)
            IN IF space.err # NoErr
               THEN Grown("failed to get available space", space.err, << >>)
               ELSE IF U64Less(space.size, ToU64(MinimumGrowSpaceRequired))
               THEN Grown(EmptyStr, MinimumGrowSpaceError(space.size), << >>)
               ELSE Grown(repairResp.val, repairResp.err,
                          <<Call("RepairDisk", parent.id, EmptyStr)>>)

\* variant: every error of the repair step returned
pkg_GrowContainer_AbortOnRepairError(disk, partitions, repairResp, resizeResp, infoResp) ==
    LET r == pkg_repairParentDisk(disk, partitions, repairResp)
        resize == r.calls \o <<Call("ResizeContainer", disk.DeviceIdentifier, sizeMax)>>
        fetch == resize \o <<Call("Info", disk.DeviceIdentifier, EmptyStr)>>
    IN IF r.err # NoErr THEN r
       ELSE IF resizeResp.err # NoErr THEN Grown(resizeResp.val, resizeResp.err, resize)
       ELSE IF infoResp.err # NoErr
       THEN Grown("failed to fetch updated disk information", infoResp.err, fetch)
       ELSE Grown("grew container", NoErr, fetch)

\* GrowContainer(disk, partitions, utility); resizeResp and infoResp are what
\* utility.ResizeContainer and utility.Info answer
pkg_GrowContainer(disk, partitions, repairResp, resizeResp, infoResp) ==
    LET r == pkg_repairParentDisk(disk, partitions, repairResp)
        resize == r.calls \o <<Call("ResizeContainer", disk.DeviceIdentifier, sizeMax)>>
        fetch == resize \o <<Call("Info", disk.DeviceIdentifier, EmptyStr)>>
    IN IF r.err # NoErr /\ IsMinimumGrowSpaceError(r.err) THEN r
       ELSE IF resizeResp.err # NoErr THEN Grown(resizeResp.val, resizeResp.err, resize)
       ELSE IF infoResp.err # NoErr
       THEN Grown("failed to fetch updated disk information", infoResp.err, fetch)
       ELSE Grown("grew container", NoErr, fetch)

\* the containers and the answers of utility.Info
EarlierDisks ==
    {DiskInfo(ZeroContainerInfo, EmptyStr, st, disk1, disk1, "Virtual") : st \in StoreSlices}
EarlierInfoResults ==
    {Result(NilPtr, ToolErr),
     Result(Ptr(DiskInfo(ZeroContainerInfo, EmptyStr, NilSlice, disk1, disk1, "Virtual")), NoErr)}

\* ---------------------------------------------------------------------------
\* Specification of the earlier revision: one call of GrowContainer
\* ---------------------------------------------------------------------------
CallEarlierGrowContainer ==
    /\ direct = NoCall
    /\ \E disk \in EarlierDisks : \E l \in ListResults :
       \E repairResp \in RepairResults : \E resizeResp \in ResizeResults :
       \E infoResp \in EarlierInfoResults :
           /\ l.err = NoErr
           /\ Returned("pkg.GrowContainer",
                       <<disk, Deref(l.val), repairResp, resizeResp, infoResp>>,
                       pkg_GrowContainer(disk, Deref(l.val), repairResp, resizeResp, infoResp))

NextEarlier == CallEarlierGrowContainer

SpecEarlier == InitCaller /\ [][NextEarlier]_vars

\* ---------------------------------------------------------------------------
\* Properties
\* ---------------------------------------------------------------------------
\* the calls GrowContainer has made, in order
GrowCalls == SelectSeq(calls, LAMBDA c : c.by = "GrowContainer")
OpsOf(cs) == [i \in 1..Len(cs) |-> cs[i].op]
CountOp(cs, op) == Cardinality({i \in 1..Len(cs) : cs[i].op = op})
IsPrefix(s, t) == Len(s) <= Len(t) /\ SubSeq(t, 1, Len(s)) = s
LastOf(cs) == cs[Len(cs)]
\* a call log as the wrapped implementation sees it
Plain(cs) == [i \in 1..Len(cs) |-> Call(cs[i].op, cs[i].id, cs[i].size)]

\* a uint64 read as an integer, where it is small enough for one
U64FitsInt(u) == u[3] = 0 /\ u[4] = 0 /\ u[2] < 2 ^ 15
U64Int(u) == u[1] + u[2] * Limb
FreeBelowThreshold(u) == U64FitsInt(u) /\ U64Int(u) < 1000000

\* getDiskFreeSpace has returned a size and no error
FreeSpaceKnown == totalFree # NilPtr /\ Deref(totalFree).err = NoErr
GrowHasReturned == growRet # NilPtr
GrowFailed == growRet # NilPtr /\ Deref(growRet) # NoErr

\* section 3's eligibility: filesystem type "apfs", or a container reference
\* together with at least one physical store
EligibleBySpec(d) ==
    \/ d.ContainerInfo.FilesystemType = "apfs"
    \/ /\ Len(d.APFSContainerReference) > 0
       /\ d.APFSPhysicalStores # NilSlice
       /\ Len(d.APFSPhysicalStores[1]) >= 1

\* C1: GrowContainer's facade calls come in the one order Info (only for a
\* container that is not physical, on its ParentWholeDisk), RepairDisk, List,
\* ResizeContainer; List never comes before RepairDisk, and ResizeContainer
\* never before the free space of that List has passed the gate.
C1_CallOrder ==
    LET ops == OpsOf(GrowCalls)
    IN /\ \/ IsPrefix(ops, <<"Info", "RepairDisk", "List", "ResizeContainer">>)
          \/ IsPrefix(ops, <<"RepairDisk", "List", "ResizeContainer">>)
       /\ ops # << >> =>
            /\ (ops[1] = "Info") <=> ~IsPhysical(Deref(container))
            /\ ops[1] = "Info" => GrowCalls[1].id = Deref(container).ParentWholeDisk
       /\ CountOp(GrowCalls, "ResizeContainer") > 0 =>
            /\ FreeSpaceKnown
            /\ ~FreeBelowThreshold(Deref(totalFree).size)

C1_Witness == OpsOf(GrowCalls) = <<"Info", "RepairDisk", "List", "ResizeContainer">>

\* C2: once the free space is computed, a value below 1,000,000 makes
\* GrowContainer return an error that wraps FreeSpaceError with exactly that
\* value, without any ResizeContainer call; a value of 1,000,000 or more leads
\* to exactly one ResizeContainer call.
C2_GrowthGate ==
    FreeSpaceKnown =>
        LET free == Deref(totalFree).size
        IN IF FreeBelowThreshold(free)
           THEN /\ GrowFailed
                /\ \E i \in 1..Len(Deref(growRet)) :
                      /\ Deref(growRet)[i].kind = "FreeSpaceError"
                      /\ Deref(growRet)[i].bytes = free
                /\ CountOp(GrowCalls, "ResizeContainer") = 0
           ELSE IF GrowHasReturned
                THEN CountOp(GrowCalls, "ResizeContainer") = 1
                ELSE pc = "grow_resize" /\ CountOp(GrowCalls, "ResizeContainer") = 0

\* the boundary: exactly 1,000,000 bytes free, and the resize made
C2_Witness ==
    /\ FreeSpaceKnown
    /\ Deref(totalFree).size = ToU64(1000000)
    /\ GrowHasReturned
    /\ CountOp(GrowCalls, "ResizeContainer") = 1

\* C3: on Dryrun(impl) no RepairDisk or ResizeContainer reaches the wrapped
\* implementation, each returns an empty output and an error matching
\* ErrReadOnly, and every Info and List is passed on with its arguments and
\* comes back with the implementation's result and error.
C3_DryrunNonMutation ==
    dryrun =>
        /\ \A i \in 1..Len(implCalls) : implCalls[i].op \in {"Info", "List"}
        /\ implCalls = Plain(SelectSeq(calls, LAMBDA c : c.op \in {"Info", "List"}))
        /\ \A i \in 1..Len(calls) :
              calls[i].op \in {"RepairDisk", "ResizeContainer"} =>
                  ErrorsIs(calls[i].err, ErrReadOnly)
        /\ calls # << >> =>
              IF LastOf(calls).op \in {"Info", "List"}
              THEN ret = implRet
              ELSE ret.val = EmptyStr /\ ErrorsIs(ret.err, ErrReadOnly)

C3_Witness ==
    /\ dryrun
    /\ CountOp(calls, "RepairDisk") > 0
    /\ CountOp(calls, "ResizeContainer") > 0
    /\ LastOf(calls).op = "Info"
    /\ ret.err = NoErr

\* C4: in a dry run the read-only error never ends GrowContainer: after the
\* skipped RepairDisk it goes on to List and the gate, and with enough free
\* space the skipped ResizeContainer gives a nil return.
C4_DryrunCompletes ==
    dryrun =>
        /\ (GrowCalls # << >> /\ LastOf(GrowCalls).op = "RepairDisk") =>
              pc = "grow_list" /\ ~GrowHasReturned
        /\ (GrowHasReturned /\ FreeSpaceKnown /\ ~FreeBelowThreshold(Deref(totalFree).size)) =>
              /\ Deref(growRet) = NoErr
              /\ CountOp(GrowCalls, "ResizeContainer") = 1
              /\ CountOp(implCalls, "ResizeContainer") = 0
        /\ GrowHasReturned => ~ErrorsIs(Deref(growRet), ErrReadOnly)

C4_Witness ==
    /\ dryrun
    /\ growRet = Ptr(NoErr)
    /\ CountOp(GrowCalls, "RepairDisk") = 1
    /\ CountOp(GrowCalls, "ResizeContainer") = 1

\* the refresh of the disk information has succeeded
RefreshSucceeded ==
    /\ calls # << >>
    /\ LastOf(calls).by = "refresh"
    /\ LastOf(calls).op = "Info"
    /\ LastOf(calls).err = NoErr

\* C5: run returns nil exactly when the grow and the refresh after it both
\* succeed, or when GrowContainer fails with an error wrapping FreeSpaceError;
\* in that case the free-space List is the last facade call.
C5_RunExit ==
    (entry = "run" /\ runRet # NilPtr) =>
        /\ (Deref(runRet) = NoErr) <=>
              /\ GrowHasReturned
              /\ \/ Deref(growRet) = NoErr /\ RefreshSucceeded
                 \/ ErrorsAsFreeSpaceError(Deref(growRet))
        /\ (GrowHasReturned /\ ErrorsAsFreeSpaceError(Deref(growRet))) =>
              /\ LastOf(calls).by = "GrowContainer"
              /\ LastOf(calls).op = "List"

C5_Witness ==
    /\ entry = "run"
    /\ runRet = Ptr(NoErr)
    /\ GrowHasReturned
    /\ ErrorsAsFreeSpaceError(Deref(growRet))

\* the string holds "disk" followed by a digit somewhere
ContainsDiskID(s) ==
    \E i \in 1..Len(s) :
        /\ i + 4 <= Len(s)
        /\ SubSeq(s, i, i + 3) = <<"d", "i", "s", "k">>
        /\ s[i + 4] \in Digits

\* exactly one physical store, and its identifier names a disk
ExactlyOneStore(d) ==
    /\ d.APFSPhysicalStores # NilSlice
    /\ Len(d.APFSPhysicalStores[1]) = 1
    /\ ContainsDiskID(d.APFSPhysicalStores[1][1].DeviceIdentifier)

\* GrowContainer's Info call has failed
InfoFailed ==
    /\ GrowCalls # << >>
    /\ GrowCalls[1].op = "Info"
    /\ GrowCalls[1].err # NoErr

\* phy is the physical record GrowContainer works on from the repair onwards
PhyResolved == phy # NilPtr /\ pc # "grow_info" /\ ~InfoFailed

\* C6: when the resolved physical record phy has no physical store, more than
\* one, or a single store whose identifier holds no disk[0-9]+ match,
\* GrowContainer fails before any RepairDisk, List or ResizeContainer call,
\* with or without the dry-run wrapper.
C6_ExactlyOnePhysicalStore ==
    (PhyResolved /\ ~ExactlyOneStore(Deref(phy))) =>
        /\ CountOp(GrowCalls, "RepairDisk") = 0
        /\ CountOp(GrowCalls, "List") = 0
        /\ CountOp(GrowCalls, "ResizeContainer") = 0
        /\ pc = "grow_repair" \/ GrowFailed
        /\ CountOp(implCalls, "RepairDisk") = 0
        /\ CountOp(implCalls, "ResizeContainer") = 0

\* a dry run that failed on a record with two physical stores
C6_Witness ==
    /\ dryrun
    /\ PhyResolved
    /\ SliceLen(Deref(phy).APFSPhysicalStores) = 2
    /\ GrowFailed

\* C7: RepairDisk, List and ResizeContainer are each called at most once in an
\* invocation; a RepairDisk failure other than the read-only error leaves List
\* and ResizeContainer uncalled; a List failure leaves ResizeContainer
\* uncalled; a ResizeContainer failure other than the read-only error makes
\* GrowContainer return an error.
C7_NoRetryAbortOnFailure ==
    /\ \A op \in {"RepairDisk", "List", "ResizeContainer"} : CountOp(GrowCalls, op) <= 1
    /\ \A i \in 1..Len(GrowCalls) :
          LET c == GrowCalls[i]
              failed == c.err # NoErr /\ ~ErrorsIs(c.err, ErrReadOnly)
          IN /\ (c.op = "RepairDisk" /\ failed) =>
                    /\ CountOp(GrowCalls, "List") = 0
                    /\ CountOp(GrowCalls, "ResizeContainer") = 0
                    /\ GrowFailed
             /\ (c.op = "List" /\ c.err # NoErr) =>
                    /\ CountOp(GrowCalls, "ResizeContainer") = 0
                    /\ GrowFailed
             /\ (c.op = "ResizeContainer" /\ failed) => GrowFailed

C7_Witness ==
    /\ GrowCalls # << >>
    /\ LastOf(GrowCalls).op = "RepairDisk"
    /\ LastOf(GrowCalls).err = ToolErr
    /\ GrowFailed

\* C8: given a nil container, or one that fails the eligibility check,
\* GrowContainer returns an error and makes no facade call: no Info,
\* RepairDisk, List or ResizeContainer.
C8_RejectsWithoutCalls ==
    (container = NilPtr \/ ~EligibleBySpec(Deref(container))) =>
        /\ GrowCalls = << >>
        /\ pc \in {"GrowContainer", "run", "run_info", "done"}
        /\ GrowHasReturned => GrowFailed
        /\ (entry = "GrowContainer" /\ pc = "done") => GrowFailed
        /\ (entry = "GrowContainer") => calls = << >> /\ implCalls = << >>

C8_Witness ==
    /\ container = Ptr(ZeroDiskInfo)
    /\ GrowFailed
    /\ GrowCalls = << >>

\* GrowContainer turned its container down at the eligibility check
RejectedAsIneligible ==
    /\ GrowFailed
    /\ Deref(growRet) = Wrap("unable to resize container", canAPFSResize(container))

\* C9: canAPFSResize succeeds exactly for a disk whose ContainerInfo has the
\* filesystem type "apfs", or that has both a non-empty APFS container
\* reference and at least one physical store; a nil disk is rejected.
C9_Eligibility ==
    /\ canAPFSResize(NilPtr) # NoErr
    /\ container # NilPtr =>
          /\ (canAPFSResize(container) = NoErr) <=> EligibleBySpec(Deref(container))
          /\ pc \notin {"GrowContainer", "run", "run_info"} =>
                (RejectedAsIneligible <=> ~EligibleBySpec(Deref(container)))

\* accepted through the container reference and the stores, not as "apfs"
C9_Witness ==
    /\ container # NilPtr
    /\ Deref(container).ContainerInfo.FilesystemType # "apfs"
    /\ pc \in {"grow_info", "grow_repair"}

\* C10: for an eligible container tagged physical GrowContainer makes no Info
\* call and takes the container as phy; otherwise it calls
\* Info(container.ParentWholeDisk) exactly once, and when that call fails it
\* returns an error without a RepairDisk, List or ResizeContainer call.
C10_PhysicalResolution ==
    (container # NilPtr /\ EligibleBySpec(Deref(container))
        /\ pc \notin {"GrowContainer", "run", "run_info"}) =>
        IF IsPhysical(Deref(container))
        THEN /\ CountOp(GrowCalls, "Info") = 0
             /\ phy = container
        ELSE \/ pc = "grow_info" /\ GrowCalls = << >>
             \/ /\ CountOp(GrowCalls, "Info") = 1
                /\ GrowCalls[1].op = "Info"
                /\ GrowCalls[1].id = Deref(container).ParentWholeDisk
                /\ GrowCalls[1].err # NoErr =>
                      /\ Len(GrowCalls) = 1
                      /\ GrowFailed

C10_Witness == InfoFailed /\ GrowFailed /\ Len(GrowCalls) = 1

\* C11: every ResizeContainer call of GrowContainer names the DeviceIdentifier
\* of the resolved physical record phy (the container itself when it is
\* physical, otherwise the record Info returned for its ParentWholeDisk), and
\* its size argument is "0".
C11_ResizeArguments ==
    \A i \in 1..Len(GrowCalls) :
        GrowCalls[i].op = "ResizeContainer" =>
            /\ GrowCalls[i].size = <<"0">>
            /\ PhyResolved
            /\ GrowCalls[i].id = Deref(phy).DeviceIdentifier
            /\ IF IsPhysical(Deref(container))
               THEN phy = container
               ELSE /\ GrowCalls[1].op = "Info"
                    /\ GrowCalls[1].id = Deref(container).ParentWholeDisk
                    /\ GrowCalls[1].err = NoErr
                    /\ phy \in {Ptr(d) : d \in InfoDisks}

\* a resize of the parent's record, whose identifier is not the container's
C11_Witness ==
    /\ CountOp(GrowCalls, "ResizeContainer") = 1
    /\ ~IsPhysical(Deref(container))
    /\ LastOf(GrowCalls).id = disk0
    /\ Deref(container).DeviceIdentifier = disk1

\* the List of getDiskFreeSpace succeeded and none of the DiskParts it returned
\* has the parent disk's identifier
ParentNotListed ==
    /\ growPartitions # NilPtr
    /\ \A i \in 1..Len(Deref(growPartitions)) :
          ~EqualFold(Deref(growPartitions)[i], ParentDeviceID(Deref(phy)).id)

\* C12: when the List result holds no DiskPart for the parent disk,
\* GrowContainer fails with an error that is not a FreeSpaceError, makes no
\* ResizeContainer call, and the command's run returns an error.
C12_DiskNotFound ==
    ParentNotListed =>
        /\ GrowFailed
        /\ ~ErrorsAsFreeSpaceError(Deref(growRet))
        /\ \A i \in 1..Len(Deref(growRet)) : Deref(growRet)[i].kind # "FreeSpaceError"
        /\ CountOp(GrowCalls, "ResizeContainer") = 0
        /\ LastOf(calls).op = "List" /\ LastOf(calls).by = "GrowContainer"
        /\ entry = "run" => runRet # NilPtr /\ Deref(runRet) # NoErr

\* the command failed on a snapshot that lists other disks only
C12_Witness ==
    /\ ParentNotListed
    /\ Deref(growPartitions) # << >>
    /\ entry = "run"
    /\ runRet # NilPtr

\* two strings equal up to the case of their letters
SameIgnoringCase(s, t) ==
    /\ Len(s) = Len(t)
    /\ \A i \in 1..Len(s) :
          \/ s[i] = t[i]
          \/ \E k \in 1..26 : {s[i], t[i]} = {UpperCase[k], LowerCase[k]}

\* the sum of the sizes of a partition list, as an integer
RECURSIVE SumOfSizes(_)
SumOfSizes(parts) ==
    IF parts = << >> THEN 0 ELSE parts[1].Size + SumOfSizes(Tail(parts))

\* C13: AvailableDiskSpace(id) takes the first DiskPart whose DeviceIdentifier
\* equals id up to letter case and returns its Size minus the sum of the sizes
\* of its Partitions (in uint64 arithmetic) and no error; when no DiskPart
\* matches it returns 0 and an error.
C13_AvailableDiskSpace ==
    direct.fn = "AvailableDiskSpace" =>
        LET dps == direct.args[1].AllDisksAndPartitions
            a == direct.args[2]
            matches == {i \in 1..Len(dps) : SameIgnoringCase(dps[i].DeviceIdentifier, a)}
        IN IF matches = {}
           THEN direct.out.size = U64Zero /\ direct.out.err # NoErr
           ELSE LET first == CHOOSE i \in matches : \A j \in matches : i <= j
                    sum == SumOfSizes(dps[first].Partitions)
                IN /\ direct.out.err = NoErr
                   /\ IF sum <= dps[first].Size
                      THEN /\ U64FitsInt(direct.out.size)
                           /\ U64Int(direct.out.size) = dps[first].Size - sum
                      ELSE U64Add(direct.out.size, ToU64(sum - dps[first].Size)) = U64Zero

\* two records match, in different letter cases, and the first one is taken
C13_Witness ==
    /\ direct.fn = "AvailableDiskSpace"
    /\ direct.args[2] = disk0
    /\ Len(direct.args[1].AllDisksAndPartitions) = 2
    /\ direct.args[1].AllDisksAndPartitions[1].DeviceIdentifier = DISK0
    /\ direct.args[1].AllDisksAndPartitions[2].DeviceIdentifier = disk0
    /\ direct.out = [size |-> ToU64(2000000), err |-> NoErr]

\* the string is "disk" followed by digits only, at least one
IsDiskID(x) ==
    /\ Len(x) >= 5
    /\ SubSeq(x, 1, 4) = <<"d", "i", "s", "k">>
    /\ \A i \in 5..Len(x) : x[i] \in Digits

\* x is the leftmost "disk" and digits in s, with all the digits that follow
IsLeftmostDiskID(x, s) ==
    /\ IsDiskID(x)
    /\ \E i \in 1..Len(s) :
          /\ i + Len(x) - 1 <= Len(s)
          /\ SubSeq(s, i, i + Len(x) - 1) = x
          /\ i + Len(x) <= Len(s) => s[i + Len(x)] \notin Digits
          /\ \A m \in 1..(i - 1) :
                ~(m + 4 <= Len(s) /\ SubSeq(s, m, m + 3) = <<"d", "i", "s", "k">> /\ s[m + 4] \in Digits)

RunCalls == SelectSeq(calls, LAMBDA c : c.by = "run")

\* C15: for a target that is "root" in any letter case getTargetDiskInfo calls
\* Info("/") exactly once, makes no List call and no validation, and returns
\* that call's record and error as they are.
C15_RootTarget ==
    (entry = "run" /\ SameIgnoringCase(id, <<"r", "o", "o", "t">>)) =>
        IF pc = "run"
        THEN calls = << >>
        ELSE /\ Len(RunCalls) = 1
             /\ calls[1] = RunCalls[1]
             /\ RunCalls[1].op = "Info"
             /\ RunCalls[1].id = <<"/">>
             /\ pc # "run_info"
             /\ IF RunCalls[1].err # NoErr
                THEN /\ container = NilPtr
                     /\ runRet = Ptr(Wrap("cannot grow container", RunCalls[1].err))
                     /\ Len(calls) = 1
                ELSE /\ container \in {Ptr(d) : d \in InfoDisks}
                     /\ ~GrowHasReturned => runRet = NilPtr

C15_Witness ==
    /\ entry = "run"
    /\ id = <<"R", "o", "o", "T">>
    /\ Len(RunCalls) = 1
    /\ RunCalls[1].id = <<"/">>
    /\ container # NilPtr
    /\ GrowHasReturned

\* the leftmost disk identifier in target t names one of the disks
NamesListedDisk(t, allDisks) ==
    \E a \in 1..Len(t) : \E b \in a..Len(t) :
        /\ IsLeftmostDiskID(SubSeq(t, a, b), t)
        /\ \E i \in 1..Len(allDisks) : SameIgnoringCase(allDisks[i], SubSeq(t, a, b))

\* C16: for a target other than "root" getTargetDiskInfo calls List(nil)
\* first, validates the target against that list, and calls Info(target) only
\* after the validation succeeded; when List or the validation fails it
\* returns a nil record and an error, and Info is never called.
C16_NonRootTarget ==
    (entry = "run" /\ ~SameIgnoringCase(id, <<"r", "o", "o", "t">>)) =>
        /\ \/ OpsOf(RunCalls) = << >> /\ pc = "run"
           \/ OpsOf(RunCalls) = <<"List">> /\ pc \in {"run_info", "done"}
           \/ OpsOf(RunCalls) = <<"List", "Info">> /\ pc # "run" /\ pc # "run_info"
        /\ RunCalls # << >> =>
              /\ RunCalls[1] = calls[1]
              /\ RunCalls[1].id = EmptyStr
              /\ RunCalls[1].err # NoErr =>
                    /\ Len(calls) = 1
                    /\ validated = NilPtr
              /\ (Len(RunCalls) = 1 /\ pc = "done") =>
                    /\ Len(calls) = 1
                    /\ container = NilPtr
                    /\ runRet # NilPtr /\ Deref(runRet) # NoErr
                    /\ RunCalls[1].err = NoErr => ~NamesListedDisk(id, Deref(validated))
              /\ pc = "run_info" =>
                    /\ RunCalls[1].err = NoErr
                    /\ NamesListedDisk(id, Deref(validated))
                    /\ runRet = NilPtr
        /\ Len(RunCalls) = 2 =>
              /\ RunCalls[2] = calls[2]
              /\ RunCalls[2].id = id
              /\ RunCalls[1].err = NoErr
              /\ ContainsDiskID(id)

\* the command stopped at the validation: the target is not among the disks
C16_Witness ==
    /\ entry = "run"
    /\ id = disk9
    /\ OpsOf(calls) = <<"List">>
    /\ calls[1].err = NoErr
    /\ Deref(validated) # << >>
    /\ pc = "done"

\* a bare device identifier, or a /dev/ device node: the identifier it names
IsDeviceNode(t) ==
    /\ Len(t) > 5
    /\ SubSeq(t, 1, 5) = <<"/", "d", "e", "v", "/">>
    /\ IsDiskID(SubSeq(t, 6, Len(t)))
NamedDiskID(t) == IF IsDeviceNode(t) THEN SubSeq(t, 6, Len(t)) ELSE t

\* C17: validateDeviceID accepts a target only if it is a device identifier
\* disk[0-9]+, bare or as a /dev/ device node, whose identifier is among
\* AllDisks up to letter case; every other target (empty, blank, without a
\* disk number, with other text around the identifier, or naming a disk that
\* is not listed) fails.
C17_TargetValidation ==
    direct.fn = "validateDeviceID" =>
        LET t == direct.args[1]
            allDisks == direct.args[2].AllDisks
        IN (direct.out = NoErr) <=>
              /\ IsDiskID(t) \/ IsDeviceNode(t)
              /\ \E i \in 1..Len(allDisks) : SameIgnoringCase(allDisks[i], NamedDiskID(t))

\* C17, as the code has it: validateDeviceID accepts a target exactly when the
\* leftmost disk[0-9]+ match found anywhere in it is among AllDisks up to
\* letter case, whatever text stands before or after the match.
C17_AsImplemented ==
    direct.fn = "validateDeviceID" =>
        ((direct.out = NoErr) <=> NamesListedDisk(direct.args[1], direct.args[2].AllDisks))

\* a partition identifier accepted for the disk it lies on
C17_Witness ==
    /\ direct.fn = "validateDeviceID"
    /\ direct.args[1] = disk0s2
    /\ direct.args[2].AllDisks = <<disk0>>
    /\ direct.out = NoErr

\* C18: when GrowContainer is invoked again on the same container after an
\* invocation that resized successfully, so that the parent disk's partitions
\* occupy its whole size, it makes no ResizeContainer call, and once its
\* calls up to List have succeeded it finds no free space and returns an
\* error wrapping FreeSpaceError.
C18_Idempotence ==
    entry = "again" =>
        /\ CountOp(calls, "ResizeContainer") = 0
        /\ CountOp(implCalls, "ResizeContainer") = 0
        /\ pc # "grow_resize"
        /\ GrowHasReturned => GrowFailed
        /\ (CountOp(calls, "List") = 1 /\ \A i \in 1..Len(calls) : calls[i].err = NoErr) =>
              /\ totalFree = Ptr([size |-> U64Zero, err |-> NoErr])
              /\ GrowFailed
              /\ ErrorsAsFreeSpaceError(Deref(growRet))
              /\ \E i \in 1..Len(Deref(growRet)) :
                    /\ Deref(growRet)[i].kind = "FreeSpaceError"
                    /\ Deref(growRet)[i].bytes = U64Zero

\* the second invocation, through Info, RepairDisk and List, found no space
C18_Witness ==
    /\ entry = "again"
    /\ OpsOf(calls) = <<"Info", "RepairDisk", "List">>
    /\ Len(Deref(growPartitions)) = 2
    /\ GrowHasReturned
    /\ ErrorsAsFreeSpaceError(Deref(growRet))


\* facade calls that returned after the deadline of the context had elapsed
AfterDeadline ==
    IF ctx.err = "DeadlineExceeded" THEN {i \in 1..Len(calls) : i > ctx.after} ELSE {}

\* the facade call runs an external process: under --dry-run RepairDisk and
\* ResizeContainer are skipped by the wrapper
RunsProcess(c) == ~(dryrun /\ c.op \in {"RepairDisk", "ResizeContainer"})

\* the steps that were in flight when the deadline elapsed, or were started
\* under the elapsed deadline
Cancelled == {i \in AfterDeadline : RunsProcess(calls[i])}

TimeoutError == ErrorsNew("timeout exceeded")

C20_TimeoutZeroDisables ==
    /\ timeout = 0 =>
           /\ ~ctx.hasDeadline
           /\ ctx.err = ""
           /\ cmdRet # Ptr(TimeoutError)
    /\ timeout # 0 /\ pc # "command" => ctx.hasDeadline
    /\ pc = "command" => calls = << >> /\ ~ctx.hasDeadline
    /\ growDefaultTimeout = 5 * 60

\* with timeout 0 the command ran all its steps to the refresh and returned
\* a step's own error
C20_Witness ==
    /\ timeout = 0
    /\ Len(calls) > 3
    /\ cmdRet # NilPtr
    /\ Deref(cmdRet) # NoErr
    /\ Deref(cmdRet) = Deref(runRet)


\* C21: without root privileges the pre-run check fails and the command ends
\* with its error: no facade operation is invoked on the facade or on the
\* implementation behind it, with or without --dry-run, and run is never
\* entered.
C21_RootRequired ==
    ~hasRootPrivileges(euid) =>
        /\ calls = << >>
        /\ implCalls = << >>
        /\ pc \in {"prerun", "done"}
        /\ ~ctx.hasDeadline
        /\ runRet = NilPtr
        /\ cmdRet \in {NilPtr, Ptr(ErrorsNew("root privileges required, re-run command with sudo"))}
        /\ pc = "done" => cmdRet # NilPtr

\* a non-root user asked for a dry run and the command ended in the pre-run
\* check
C21_Witness ==
    /\ ~hasRootPrivileges(euid)
    /\ dryrun
    /\ pc = "done"
    /\ cmdRet # NilPtr
    /\ Deref(cmdRet) # NoErr


\* the facade calls as operation and identifier
CallSigs(cs) == [i \in 1..Len(cs) |-> <<cs[i].op, cs[i].id>>]

\* run grew the container and refreshed the disk information
RunSucceeded ==
    /\ entry = "run"
    /\ growRet = Ptr(NoErr)
    /\ runRet = Ptr(NoErr)

\* the refresh after a grow without error has returned, with a failed call
\* or a failed validation
RefreshFailed ==
    /\ entry = "run"
    /\ growRet = Ptr(NoErr)
    /\ pc = "done"
    /\ LastOf(calls).by = "refresh"
    /\ \/ LastOf(calls).err # NoErr
       \/ LastOf(calls).op = "List"

\* the calls GrowContainer and the refresh make for target info d
GrowAndRefreshSigs(d) ==
    <<<<"RepairDisk", ParentDeviceID(Deref(phy)).id>>,
      <<"List", EmptyStr>>,
      <<"ResizeContainer", Deref(phy).DeviceIdentifier>>,
      <<"List", EmptyStr>>,
      <<"Info", d.ParentWholeDisk>>>>

\* a failed refresh makes run fail, and no mutating call follows the resize
FailedRefreshIsFailure ==
    RefreshFailed =>
        /\ runRet # NilPtr
        /\ Deref(runRet) # NoErr
        /\ CountOp(calls, "RepairDisk") = 1
        /\ CountOp(calls, "ResizeContainer") = 1
        /\ \A i \in 1..Len(calls) :
               calls[i].by = "refresh" => calls[i].op \in {"List", "Info"}

\* C22 as stated: a successful run on a target other than "root" makes
\* exactly the calls List, Info(target), RepairDisk, List, ResizeContainer,
\* List, Info(ParentWholeDisk), and a failed refresh makes run fail.
C22_RunOrder ==
    /\ RunSucceeded /\ ~IsRootTarget(id) =>
           CallSigs(calls) =
               <<<<"List", EmptyStr>>, <<"Info", id>>>> \o GrowAndRefreshSigs(Deref(container))
    /\ FailedRefreshIsFailure

\* C22 as the code has it: the order stated is that of a target whose
\* record says "Physical"; for any other record GrowContainer first calls
\* Info(ParentWholeDisk) to resolve the physical disk, between Info(target)
\* and RepairDisk. A failed refresh makes run fail with nothing undone.
C22_RunOrderResolved ==
    /\ RunSucceeded /\ ~IsRootTarget(id) =>
           CallSigs(calls) =
               <<<<"List", EmptyStr>>, <<"Info", id>>>>
               \o (IF Deref(container).VirtualOrPhysical = "Physical"
                   THEN << >>
                   ELSE <<<<"Info", Deref(container).ParentWholeDisk>>>>)
               \o GrowAndRefreshSigs(Deref(container))
    /\ FailedRefreshIsFailure

\* a run that succeeded on a virtual container with eight calls, the third
\* of them the Info that resolves the physical disk
C22_Witness ==
    /\ RunSucceeded
    /\ ~IsRootTarget(id)
    /\ ~dryrun
    /\ Deref(container).VirtualOrPhysical = "Virtual"
    /\ Len(calls) = 8
    /\ calls[3].op = "Info"
    /\ calls[3].by = "GrowContainer"

\* the refresh failed in its Info call after a resize that succeeded
C22_RefreshFailureReached ==
    /\ RefreshFailed
    /\ ~dryrun
    /\ LastOf(calls).op = "Info"
    /\ LastOf(calls).err # NoErr


\* the command of a direct List or Info call succeeded and put out bytes the
\* decoder accepts; the record those bytes decode to
PrimaryOK(cmdOut) == cmdOut.err = NoErr /\ cmdOut.Stdout.kind \in {"empty", "plist"}
RecordIn(cmdOut, zero) == IF cmdOut.Stdout.kind = "plist" THEN cmdOut.Stdout.rec ELSE zero

\* the backfill command put out a physical store
GoodFetch(f) == f.err = NoErr /\ f.Stdout = StoreLine
BackfillErrors == {Wrap("stderr", ExitErr), ErrorsNew("physical store not found")}

\* the entries of a decoded list whose backfill command fails
FailingEntries(l, fetches) ==
    {i \in 1..Len(l.AllDisksAndPartitions) :
        l.AllDisksAndPartitions[i].APFSVolumes # NilSlice /\ ~GoodFetch(fetches[i])}

\* record p is record q but for physical stores added to its entries
SameButStores(p, q) ==
    /\ Len(p.AllDisksAndPartitions) = Len(q.AllDisksAndPartitions)
    /\ \A i \in 1..Len(q.AllDisksAndPartitions) :
           /\ p.AllDisksAndPartitions[i].DeviceIdentifier = q.AllDisksAndPartitions[i].DeviceIdentifier
           /\ p.AllDisksAndPartitions[i].APFSVolumes = q.AllDisksAndPartitions[i].APFSVolumes

\* C23: on Mojave a failure of the primary command or of the decoding
\* returns (nil, error) and runs no backfill command; when both succeed and
\* a backfill command fails, List and Info return that failure's error with
\* the decoded record, not nil.
C23_MojaveBackfill ==
    /\ (direct.fn \in {"diskutilMojave.List", "diskutilMojave.Info"}
            /\ ~PrimaryOK(direct.args[1])) =>
           /\ direct.out.ret.val = NilPtr
           /\ direct.out.ret.err # NoErr
           /\ direct.out.fetches = 0
    /\ direct.fn = "diskutilMojave.Info" /\ PrimaryOK(direct.args[1]) =>
           LET rec == RecordIn(direct.args[1], ZeroMojaveDiskInfo)
               needed == rec.FilesystemType = "apfs" \/ rec.IORegistryEntryName = "AppleAPFSMedia"
           IN IF needed /\ ~GoodFetch(direct.args[2])
              THEN /\ direct.out.ret.val = Ptr(rec)
                   /\ direct.out.ret.err \in BackfillErrors
              ELSE /\ direct.out.ret.val # NilPtr
                   /\ direct.out.ret.err = NoErr
    /\ direct.fn = "diskutilMojave.List" /\ PrimaryOK(direct.args[1]) =>
           LET rec == RecordIn(direct.args[1], ZeroMojavePartitions)
           IN /\ direct.out.ret.val # NilPtr
              /\ SameButStores(Deref(direct.out.ret.val), rec)
              /\ IF FailingEntries(rec, direct.args[2]) # {}
                 THEN direct.out.ret.err \in BackfillErrors
                 ELSE direct.out.ret.err = NoErr

\* List on Mojave decoded two APFS entries, backfilled the first and failed
\* on the second: the record comes back with the error
C23_Witness ==
    /\ direct.fn = "diskutilMojave.List"
    /\ PrimaryOK(direct.args[1])
    /\ FailingEntries(RecordIn(direct.args[1], ZeroMojavePartitions), direct.args[2]) = {2}
    /\ direct.out.ret.err # NoErr
    /\ direct.out.ret.val # NilPtr
    /\ Deref(direct.out.ret.val).AllDisksAndPartitions[1].APFSPhysicalStores # << >>
    /\ direct.out.fetches = 2


\* the outermost message of an error
Message(e) == e[1].msg

\* the messages the failures of info and of list carry
InfoFailureMessages ==
    {Message(info(c).ret.err) : c \in {o \in InfoOutputs : info(o).ret.err # NoErr}}
ListFailureMessages ==
    {Message(list(c).ret.err) : c \in {o \in ListOutputs : list(o).ret.err # NoErr}}

\* the error of the direct List or Info call tells the two operations apart:
\* no failure of the other operation carries its message
IdentifiesOperation ==
    /\ direct.fn = "diskutilCatalina.List" =>
           Message(direct.out.ret.err) \notin InfoFailureMessages
    /\ direct.fn = "diskutilCatalina.Info" =>
           Message(direct.out.ret.err) \notin ListFailureMessages

\* the direct call is a List or Info whose command failed or whose output
\* the decoder rejects
PrimaryFailed ==
    /\ direct.fn \in {"diskutilCatalina.List", "diskutilCatalina.Info"}
    /\ ~PrimaryOK(direct.args[1])

ParserPanicked ==
    /\ PrimaryFailed
    /\ direct.args[1].err = NoErr
    /\ direct.args[1].Stdout.kind = "panics"

\* a failed List or Info returns (nil, error), and decodes nothing when the
\* command failed
NilRecordOnFailure ==
    PrimaryFailed =>
        /\ direct.out.ret.val = NilPtr
        /\ direct.out.ret.err # NoErr
        /\ direct.args[1].err # NoErr =>
               /\ direct.out.decodes = 0
               /\ ErrorsIs(direct.out.ret.err, direct.args[1].err)

\* C24 as stated: every failure of the command or of the decoding inside
\* List and Info returns a nil record and an error whose context identifies
\* the operation that failed, and nothing is decoded after a failed command.
C24_FailureContext ==
    /\ NilRecordOnFailure
    /\ PrimaryFailed => IdentifiesOperation

\* C24 as the code has it: the same, except that a panic of the parser
\* comes back as "decoder panicked" from List and from Info alike.
C24_AsImplemented ==
    /\ NilRecordOnFailure
    /\ PrimaryFailed /\ ~ParserPanicked => IdentifiesOperation
    /\ ParserPanicked => direct.out.ret.err = ErrorsNew("decoder panicked")

\* List failed in its command, with output the decoder would have accepted
C24_Witness ==
    /\ direct.fn = "diskutilCatalina.List"
    /\ direct.args[1].err # NoErr
    /\ direct.args[1].Stdout.kind = "plist"
    /\ direct.out.ret.val = NilPtr
    /\ direct.out.decodes = 0


\* the direct call is a call of one of the two decoders
DecoderCalled == direct.fn \in {"DecodeSystemPartitions", "DecodeDiskInfo"}

\* C25: for both record types a decoding that fails, on bytes that are no
\* plist or by a panic of the parser, returns a nil record and an error; no
\* panic leaves the decoder, and no record is returned with an error.
C25_DecodeFailure ==
    DecoderCalled =>
        /\ ~direct.out.escaped
        /\ direct.args[1].kind \in {"garbage", "panics"} =>
               /\ direct.out.ret.val = NilPtr
               /\ direct.out.ret.err # NoErr
        /\ direct.out.ret.err # NoErr => direct.out.ret.val = NilPtr
        /\ direct.out.ret.err = NoErr => direct.out.ret.val # NilPtr

\* the parser panicked while a list was decoded
C25_Witness ==
    /\ direct.fn = "DecodeSystemPartitions"
    /\ direct.args[1].kind = "panics"
    /\ direct.out.ret = Result(NilPtr, ErrorsNew("decoder panicked"))

\* C28: an empty byte stream decodes, for each record type, to the record
\* with every field at its zero value and no error.
C28_EmptyInput ==
    /\ direct.fn = "DecodeSystemPartitions" /\ direct.args[1] = RawEmpty =>
           direct.out.ret = Result(Ptr(ZeroMojavePartitions), NoErr)
    /\ direct.fn = "DecodeDiskInfo" /\ direct.args[1] = RawEmpty =>
           direct.out.ret = Result(Ptr(ZeroMojaveDiskInfo), NoErr)
    /\ DecoderCalled /\ direct.args[1] = RawEmpty => ~direct.out.escaped

\* the disk information decoder was given no bytes
C28_Witness ==
    /\ direct.fn = "DecodeDiskInfo"
    /\ direct.args[1] = RawEmpty
    /\ direct.out.ret.err = NoErr
    /\ Deref(direct.out.ret.val).DeviceIdentifier = EmptyStr
    /\ Deref(direct.out.ret.val).APFSPhysicalStores = << >>


\* the direct call of getDiskFreeSpace panicked
FreeSpacePanicked == direct.fn = "getDiskFreeSpace" /\ "panic" \in DOMAIN direct.out

\* C26 as stated: whenever List returns (nil, nil), and whenever List
\* fails, getDiskFreeSpace returns 0 with an error and does not panic,
\* whatever the disk.
C26_NilPartitions ==
    (direct.fn = "getDiskFreeSpace"
        /\ (direct.args[1] = NilListResult \/ direct.args[1].err # NoErr)) =>
        /\ ~FreeSpacePanicked
        /\ direct.out.size = U64Zero
        /\ direct.out.err # NoErr

\* C26 as the code has it: the same when List fails; when List returns
\* (nil, nil), the same for a disk whose ParentDeviceID fails, and a nil
\* dereference for every disk with exactly one physical store that names a
\* disk.
C26_AsImplemented ==
    /\ (direct.fn = "getDiskFreeSpace" /\ direct.args[1].err # NoErr) =>
           /\ ~FreeSpacePanicked
           /\ direct.out.size = U64Zero
           /\ direct.out.err = direct.args[1].err
    /\ (direct.fn = "getDiskFreeSpace" /\ direct.args[1] = NilListResult) =>
           LET stores == direct.args[2].APFSPhysicalStores
               resolves == /\ SliceLen(stores) = 1
                           /\ stores # NilSlice
                           /\ \E i \in 1..Len(SliceAt(stores, 1).DeviceIdentifier) :
                                  DiskIDMatchAt(SliceAt(stores, 1).DeviceIdentifier, i)
           IN IF resolves
              THEN FreeSpacePanicked
              ELSE /\ ~FreeSpacePanicked
                   /\ direct.out.size = U64Zero
                   /\ direct.out.err # NoErr

\* List returned (nil, nil) and the disk had no physical stores, as in the
\* repository's test: 0 and an error
C26_Witness ==
    /\ direct.fn = "getDiskFreeSpace"
    /\ direct.args[1] = NilListResult
    /\ direct.args[2].APFSPhysicalStores = NilSlice
    /\ direct.out.size = U64Zero
    /\ direct.out.err # NoErr

\* ---------------------------------------------------------------------------
\* The executor
\* ---------------------------------------------------------------------------
ExecuteCalled == direct.fn = "ExecuteCommand"
ArgvOf == direct.args[1]
RunAsUserOf == direct.args[2]
LookupOf == direct.args[3]
CacheOf == direct.args[4]

\* the value the directory-service cache gives for a key: that of the last
\* line of its output that names the key, the empty string if none does
CacheValue(key) ==
    LET lines == CacheOf.Stdout
        named == {i \in 1..Len(lines) : lines[i].split /\ EqualFold(lines[i].key, key)}
    IN IF named = {} THEN EmptyStr
       ELSE lines[CHOOSE i \in named : \A j \in named : j <= i].val

BothMethodsFail == LookupOf.err # NoErr /\ CacheOf.err # NoErr
UidString == IF LookupOf.err = NoErr THEN Deref(LookupOf.val).Uid ELSE CacheValue(uidKey)
GidString == IF LookupOf.err = NoErr THEN Deref(LookupOf.val).Gid ELSE CacheValue(gidKey)
IsInteger(str) ==
    \E sign \in {<< >>, <<"+">>, <<"-">>} : \E n \in 1..3 : \E digits \in [1..n -> Digits] :
        str = sign \o digits
UserUnresolved ==
    \/ BothMethodsFail
    \/ UidString = EmptyStr \/ GidString = EmptyStr
    \/ ~IsInteger(UidString) \/ ~IsInteger(GidString)
UserResolutionError ==
    /\ direct.out.ret.err # NoErr
    /\ Message(direct.out.ret.err) = "error looking up user"
    /\ ~direct.out.started

\* C27: when runAsUser is set, uid and gid are resolved by the direct system
\* lookup first, and the directory-service cache is queried only if that lookup
\* fails; the call fails with a user-resolution error, the requested program
\* not started, if both methods fail, if uid or gid is missing, or if either
\* is not an integer (and in no other case).
C27_UserResolution ==
    (ExecuteCalled /\ ArgvOf # << >> /\ RunAsUserOf # EmptyStr) =>
        /\ direct.out.tried[1] = "Lookup"
        /\ direct.out.tried = (IF LookupOf.err = NoErr THEN <<"Lookup">>
                                ELSE <<"Lookup", "dscacheutil">>)
        /\ UserUnresolved <=> UserResolutionError

\* the lookup failed, the cache answered, and its gid is not an integer
C27_Witness ==
    /\ ExecuteCalled /\ ArgvOf # << >> /\ RunAsUserOf # EmptyStr
    /\ LookupOf.err # NoErr /\ CacheOf.err = NoErr
    /\ UidString = uid501 /\ GidString = notANumber
    /\ UserResolutionError
    /\ direct.out.tried = <<"Lookup", "dscacheutil">>

\* the fallback resolved the user and the program started with its credential
C27_FallbackResolved ==
    /\ ExecuteCalled /\ RunAsUserOf # EmptyStr
    /\ LookupOf.err # NoErr
    /\ direct.out.started
    /\ direct.out.cred = Ptr([Uid |-> <<65535, 65534>>, Gid |-> <<0, 20>>])

\* C29: ExecuteCommand called with an empty argument vector fails with an
\* error and empty captured output, resolves no user and starts no process.
C29_EmptyArgv ==
    (ExecuteCalled /\ ArgvOf = << >>) =>
        /\ direct.out.ret.err # NoErr
        /\ direct.out.ret.Stdout = EmptyStr
        /\ direct.out.ret.Stderr = EmptyStr
        /\ direct.out.tried = << >>
        /\ direct.out.cred = NilPtr
        /\ ~direct.out.started

\* an empty argument vector with a user to run as
C29_Witness ==
    /\ ExecuteCalled /\ ArgvOf = << >>
    /\ RunAsUserOf = ec2user
    /\ direct.out.ret = CommandOutput(EmptyStr, EmptyStr, ErrorsNew("must provide a command"))

\* ---------------------------------------------------------------------------
\* Partitions larger than their disk
\* ---------------------------------------------------------------------------
\* the sum of the sizes of the target's partitions, as a natural number
TargetSum == SumOfSizes(Deref(growTarget).Partitions)

\* the DiskPart of the parent disk holds partitions that sum to more than its Size
OverAllocated == growTarget # NilPtr /\ TargetSum > Deref(growTarget).Size

FreeSpaceComputed == totalFree # NilPtr /\ growPartitions # NilPtr

RepairCalls == SelectSeq(GrowCalls, LAMBDA c : c.op = "RepairDisk")
RepairedID == RepairCalls[1].id

\* the free space of a DiskPart, in uint64
FreeOf(dp) == U64Sub(ToU64(dp.Size), ToU64(SumOfSizes(dp.Partitions)))

\* C31: in every GrowContainer execution that reaches the free-space
\* computation, one RepairDisk call was made, on the parent id of phy's single
\* physical store, and the DiskPart whose free space is taken from the List
\* result is the one that carries that same identifier; if the snapshot holds
\* no such DiskPart the computation fails.
C31_RepairedIsMeasured ==
    FreeSpaceComputed =>
        /\ Len(RepairCalls) = 1
        /\ RepairedID = ParentDeviceID(Deref(phy)).id
        /\ IF \E i \in 1..Len(Deref(growPartitions)) :
                  EqualFold(Deref(growPartitions)[i], RepairedID)
           THEN /\ growTarget # NilPtr
                /\ EqualFold(Deref(growTarget).DeviceIdentifier, RepairedID)
                /\ Deref(totalFree) = [size |-> FreeOf(Deref(growTarget)), err |-> NoErr]
           ELSE /\ growTarget = NilPtr
                /\ Deref(totalFree).err # NoErr

\* disk0 was repaired and measured while the snapshot also lists the
\* container's own disk1, whose free space differs
C31_Witness ==
    /\ FreeSpaceComputed
    /\ RepairedID = disk0
    /\ Deref(phy).DeviceIdentifier = disk1
    /\ \E i \in 1..Len(Deref(growPartitions)) : Deref(growPartitions)[i] = disk1
    /\ growTarget # NilPtr
    /\ Deref(totalFree).size # ToU64(500000)
    /\ growRet = Ptr(NoErr)

\* ---------------------------------------------------------------------------
\* A dry run against a real run
\* ---------------------------------------------------------------------------
\* the Info and List calls GrowContainer made, each with its argument and the
\* error it was answered with
ReadCalls == SelectSeq(GrowCalls, LAMBDA c : c.op \in {"Info", "List"})
ReadTrace == [i \in 1..Len(ReadCalls) |-> <<ReadCalls[i].op, ReadCalls[i].id, ReadCalls[i].err>>]

\* a real run in which every RepairDisk and ResizeContainer succeeded
RealRunSucceeding ==
    /\ ~dryrun
    /\ \A i \in 1..Len(GrowCalls) :
          GrowCalls[i].op \in {"RepairDisk", "ResizeContainer"} => GrowCalls[i].err = NoErr

\* what GrowContainer decided: the step it stopped at, the byte count of its
\* FreeSpaceError if any, and whether it went on to the resize step
Decision(step, bytes, resize) == [step |-> step, bytes |-> bytes, resize |-> resize]

DecisionTaken ==
    LET err == Deref(growRet)
    IN Decision(IF err = NoErr THEN "resize" ELSE Message(err),
                IF err # NoErr /\ ErrorsAsFreeSpaceError(err)
                THEN err[CHOOSE i \in 1..Len(err) : err[i].kind = "FreeSpaceError"].bytes
                ELSE U64Zero,
                CountOp(GrowCalls, "ResizeContainer") = 1)

\* the answers the run got to its Info and List calls: the error of each, the
\* record Info returned, and the DiskPart of the parent in what List returned
InfoAnswered(err) == Len(ReadCalls) >= 1 /\ ReadCalls[1].op = "Info" /\ ReadCalls[1].err = err
ListError == LET l == SelectSeq(ReadCalls, LAMBDA c : c.op = "List") IN IF l = << >> THEN NoErr ELSE l[1].err

\* the calls and the decision that follow from the container and the answers
\* to Info and List alone
ExpectedOutcome ==
    LET stop(step, trace) == [decision |-> Decision(step, U64Zero, FALSE), trace |-> trace]
        c == Deref(container)
        asked == <<"Info", c.ParentWholeDisk, IF InfoAnswered(NoErr) THEN NoErr ELSE ToolErr>>
        before == IF IsPhysical(c) THEN << >> ELSE <<asked>>
        listed == <<"List", EmptyStr, ListError>>
    IN IF container = NilPtr THEN stop("unable to resize nil container", << >>)
       ELSE IF ~EligibleBySpec(c) THEN stop("unable to resize container", << >>)
       ELSE IF ~IsPhysical(c) /\ ~InfoAnswered(NoErr)
       THEN stop("unable to determine physical disk", before)
       ELSE IF ParentDeviceID(Deref(phy)).err # NoErr
       THEN stop("cannot update free space on disk", before)
       ELSE IF ListError # NoErr \/ growTarget = NilPtr
       THEN stop("cannot determine available space on disk", before \o <<listed>>)
       ELSE IF FreeBelowThreshold(FreeOf(Deref(growTarget)))
       THEN [decision |-> Decision("not enough space to resize container",
                                   FreeOf(Deref(growTarget)), FALSE),
             trace |-> before \o <<listed>>]
       ELSE [decision |-> Decision("resize", U64Zero, TRUE), trace |-> before \o <<listed>>]

\* C32: for the same container and the same answers to Info and List,
\* GrowContainer through the Dryrun decorator and GrowContainer in a real run
\* whose RepairDisk and ResizeContainer succeed issue the same Info and List
\* calls and reach the same decision: both end with the calls and the decision
\* that the container and those answers determine.
C32_DryrunEquivalence ==
    (GrowHasReturned /\ (dryrun \/ RealRunSucceeding)) =>
        /\ ReadTrace = ExpectedOutcome.trace
        /\ DecisionTaken = ExpectedOutcome.decision

\* a dry run of a virtual container that went through Info and List to the
\* resize step, nothing reaching the wrapped implementation but those two
C32_Witness ==
    /\ GrowHasReturned /\ dryrun
    /\ entry = "GrowContainer"
    /\ Len(ReadTrace) = 2
    /\ DecisionTaken = Decision("resize", U64Zero, TRUE)
    /\ OpsOf(implCalls) = <<"Info", "List">>

\* the real run with the same outcome
C32_RealWitness ==
    /\ GrowHasReturned /\ RealRunSucceeding
    /\ entry = "GrowContainer"
    /\ Len(ReadTrace) = 2
    /\ DecisionTaken = Decision("resize", U64Zero, TRUE)

\* ---------------------------------------------------------------------------
\* The frame of the Mojave backfill
\* ---------------------------------------------------------------------------
\* a List or Info call whose command and decoding succeeded
BackfillCalled ==
    /\ direct.fn \in {"diskutilMojave.List", "diskutilMojave.Info"}
    /\ PrimaryOK(direct.args[1])
LaterReleaseCalled ==
    /\ direct.fn \in {"diskutilCatalina.List", "diskutilCatalina.Info"}
    /\ PrimaryOK(direct.args[1])

DecodedList == RecordIn(direct.args[1], ZeroMojavePartitions).AllDisksAndPartitions
DecodedInfo == RecordIn(direct.args[1], ZeroMojaveDiskInfo)
ReturnedList == Deref(direct.out.ret.val).AllDisksAndPartitions
ReturnedInfo == Deref(direct.out.ret.val)

\* record p is record q with one synthesized store after the stores of q
OneStoreAppended(p, q) ==
    /\ Len(p.APFSPhysicalStores) = Len(q.APFSPhysicalStores) + 1
    /\ SubSeq(p.APFSPhysicalStores, 1, Len(q.APFSPhysicalStores)) = q.APFSPhysicalStores
    /\ p.APFSPhysicalStores[Len(p.APFSPhysicalStores)] = [DeviceIdentifier |-> disk0s2]
    /\ [p EXCEPT !.APFSPhysicalStores = q.APFSPhysicalStores] = q

APFSPart(part) == part.APFSVolumes # NilSlice
APFSInfo(disk) == disk.FilesystemType = "apfs" \/ disk.IORegistryEntryName = "AppleAPFSMedia"

\* the later releases return what was decoded
LaterReleasesUnmodified ==
    /\ (LaterReleaseCalled /\ direct.fn = "diskutilCatalina.List") =>
           direct.out.ret = Result(Ptr(RecordIn(direct.args[1], ZeroMojavePartitions)), NoErr)
    /\ (LaterReleaseCalled /\ direct.fn = "diskutilCatalina.Info") =>
           direct.out.ret = Result(Ptr(DecodedInfo), NoErr)

BackfilledUpTo(i) ==
    \A j \in 1..i : APFSPart(DecodedList[j]) => GoodFetch(direct.args[2][j])

C33_LeftOut ==
    /\ BackfillCalled /\ direct.fn = "diskutilMojave.List"
    /\ Len(DecodedList) = 2
    /\ APFSPart(DecodedList[2]) /\ GoodFetch(direct.args[2][2])
    /\ ReturnedList[2] = DecodedList[2]

\* ---------------------------------------------------------------------------
\* The facade for a release
\* ---------------------------------------------------------------------------
RecognisedReleases == {"Mojave", "Catalina", "BigSur", "Monterey", "Ventura", "Sonoma", "Sequoia"}
UnknownRelease == ErrorsNew("unknown release")

\* a facade of type d runs a backfill command on some output of the tool
Backfills(d) ==
    \/ \E cmdOut \in ListOutputs : \E fetches \in FetchSeqs :
           Facade_List(d, cmdOut, fetches).fetches > 0
    \/ \E cmdOut \in InfoOutputs : \E fetch \in FetchOutputs :
           Facade_Info(d, cmdOut, fetch).fetches > 0

\* ForProduct over the releases
FacadeOnlyForRecognised ==
    \A r \in Releases :
        IF r \in RecognisedReleases
        THEN /\ ForProduct(r).err = NoErr
             /\ ForProduct(r).val # NilPtr
             /\ Backfills(Deref(ForProduct(r).val)) <=> r = "Mojave"
        ELSE ForProduct(r) = Result(NilPtr, UnknownRelease)

\* C34: ForProduct returns a facade for a recognised release only and
\* "unknown release" for any other, the Unknown and the compatibility-mode
\* release included; only the Mojave facade runs the backfill; and when
\* ForProduct fails the grow command returns its error with no List, Info,
\* RepairDisk or ResizeContainer call made.
C34_UnknownRelease ==
    /\ FacadeOnlyForRecognised
    /\ (cmdRet = Ptr(UnknownRelease)) =>
           /\ calls = << >>
           /\ implCalls = << >>
           /\ runRet = NilPtr
           /\ pc = "done"
    /\ calls # << >> => cmdRet # Ptr(UnknownRelease)

\* the command ended on "unknown release", a deadline installed, no call made
C34_Witness ==
    /\ cmdRet = Ptr(UnknownRelease)
    /\ ctx.hasDeadline
    /\ calls = << >>

\* ---------------------------------------------------------------------------
\* The earlier revision of GrowContainer
\* ---------------------------------------------------------------------------
EarlierCalled == direct.fn = "pkg.GrowContainer"
EarlierDisk == direct.args[1]
EarlierParts == direct.args[2].AllDisksAndPartitions

\* the physical store of the disk names a parent disk, and the DiskParts of
\* the list that carry the parent's identifier, in any letter case
ParentResolves ==
    /\ SliceLen(EarlierDisk.APFSPhysicalStores) = 1
    /\ DiskIDFindString(SliceAt(EarlierDisk.APFSPhysicalStores, 1).DeviceIdentifier) # EmptyStr
EarlierParent == DiskIDFindString(SliceAt(EarlierDisk.APFSPhysicalStores, 1).DeviceIdentifier)
ParentEntries == {i \in 1..Len(EarlierParts) : EqualFold(EarlierParts[i].DeviceIdentifier, EarlierParent)}
ParentListed == ParentResolves /\ ParentEntries # {}
ParentFree == FreeOf(EarlierParts[CHOOSE i \in ParentEntries : \A j \in ParentEntries : i <= j])

EarlierRepair == Call("RepairDisk", EarlierParent, EmptyStr)
EarlierResize == Call("ResizeContainer", EarlierDisk.DeviceIdentifier, <<"0">>)
EarlierInfo == Call("Info", EarlierDisk.DeviceIdentifier, EmptyStr)

\* C35: in the earlier revision the free-space gate precedes the repair:
\* with the parent's free space below MinimumGrowSpaceRequired GrowContainer
\* returns a MinimumGrowSpaceError and an empty message and makes no call;
\* with at least that much free its calls are RepairDisk(parent), then
\* ResizeContainer(container, "0"), then, if the resize succeeded,
\* Info(container).
C35_EarlierGateFirst ==
    (EarlierCalled /\ ParentListed) =>
        IF FreeBelowThreshold(ParentFree)
        THEN /\ direct.out.calls = << >>
             /\ direct.out.message = EmptyStr
             /\ Len(direct.out.err) = 1
             /\ direct.out.err[1].kind = "MinimumGrowSpaceError"
             /\ direct.out.err[1].bytes = ParentFree
        ELSE direct.out.calls =
                IF direct.args[4].err = NoErr
                THEN <<EarlierRepair, EarlierResize, EarlierInfo>>
                ELSE <<EarlierRepair, EarlierResize>>

\* the three calls, in order, on a disk with enough free space
C35_Witness ==
    /\ EarlierCalled /\ ParentListed
    /\ ~FreeBelowThreshold(ParentFree)
    /\ direct.out.calls = <<EarlierRepair, EarlierResize, EarlierInfo>>
    /\ direct.out.err = NoErr

\* the gate closed: too little free, and no call
C35_GateClosed ==
    /\ EarlierCalled /\ ParentListed
    /\ FreeBelowThreshold(ParentFree)
    /\ direct.out.calls = << >>
    /\ IsMinimumGrowSpaceError(direct.out.err)

\* the repair step failed for another reason than too little free space
RepairStepFailedOtherwise ==
    \/ ~ParentResolves
    \/ ParentResolves /\ ~ParentListed
    \/ ParentListed /\ ~FreeBelowThreshold(ParentFree) /\ direct.args[3].err # NoErr

\* C36: in the earlier revision a failure of the repair step that is not a
\* MinimumGrowSpaceError (the parent id unresolvable, the parent missing
\* from the partition list, or RepairDisk failing) does not abort:
\* ResizeContainer is still called exactly once, on the container.
C36_EarlierRepairNotFatal ==
    (EarlierCalled /\ RepairStepFailedOtherwise) =>
        /\ Cardinality({i \in 1..Len(direct.out.calls) :
                            direct.out.calls[i].op = "ResizeContainer"}) = 1
        /\ \E i \in 1..Len(direct.out.calls) : direct.out.calls[i] = EarlierResize
        /\ direct.args[4].err = NoErr =>
               direct.out.calls[Len(direct.out.calls)] = EarlierInfo
        /\ ~IsMinimumGrowSpaceError(direct.out.err)

\* RepairDisk failed, and the container was resized all the same
C36_Witness ==
    /\ EarlierCalled /\ ParentListed
    /\ direct.args[3].err # NoErr
    /\ direct.out.calls = <<EarlierRepair, EarlierResize, EarlierInfo>>
    /\ direct.out.err = NoErr

\* the parent is not in the list, and the container was resized
C36_ParentMissing ==
    /\ EarlierCalled /\ ParentResolves /\ ~ParentListed
    /\ direct.out.calls = <<EarlierResize, EarlierInfo>>

====
